---- MODULE Spec2Model ----
(***************************************************************************)
(* Fixed-width contract model and decoder of the IDP470 pipeline.         *)
(*                                                                         *)
(* Text is modelled as a sequence of one-character strings, so slicing,   *)
(* padding, trimming and numeric parsing are computed character by        *)
(* character as Python does.  An Optional value is a sequence of length   *)
(* 0 (None) or 1.  Python values produced by the decoder are records      *)
(* [kind, text, num, scale]: kind "str" | "none" | "int" | "dec"; a       *)
(* Decimal is num / 10^scale.                                              *)
(***************************************************************************)
EXTENDS Integers, Sequences, FiniteSets, TLC

VARIABLES
    built,              \* RecordSpec objects the caller has constructed so far
    args,               \* Optional: arguments of the last constructor call
    contract,           \* Optional: the ContractSpec in use
    parser,             \* Optional: FixedWidthParser.contract once the parser exists
    raised,             \* Optional: the exception that ended the current operation
    line,               \* Optional: the line last handed to parse_line
    output,             \* Optional: what parse_line returned for it
    raw_value,          \* Optional: raw slice handed to _coerce_value
    field,              \* Optional: FieldSpec handed to _coerce_value
    value,              \* Optional: what _coerce_value returned
    handle,             \* parse_file: the lines of the input file
    continue_on_error,  \* parse_file argument
    line_number,        \* parse_file: number of lines read so far
    records,            \* parse_file: decoded records so far
    issues,             \* parse_file: diagnostics so far
    structure_issues,   \* Optional: what _validate_structure returned to parse_file
    error,              \* Optional: str(error) of the exception parse_file raised
    result,             \* Optional: what parse_file handed to its caller
    source_lines,       \* layout parsers: the source lines not yet read
    stack,              \* layout parsers: the parent-tracking stack
    nodes,              \* _build_tree: the nodes created, each with its parent
    current_structure,  \* _build_record_specs_from_text: Optional open structure
    current_fields,     \* _build_record_specs_from_text: fields of the open structure
    current_group_fields, \* _build_record_specs_from_text: its fields by group
    current_position,   \* _build_record_specs_from_text: last byte assigned
    templates_by_structure, \* _build_record_specs_from_text: templates of flushed structures
    records_by_name,    \* _build_record_specs_from_text: RecordSpecs built so far
    record_nodes,       \* extract_contract_from_cobol_source: Optional level-01 nodes left
    selected_specs,     \* extract_contract_from_cobol_source: RecordSpecs selected so far
    flattened,          \* Optional: what the last _emit_fields call on a record left
    _CONTRACT_CACHE,    \* backend: cache key -> contract
    _CONTRACT_LOCK,     \* backend: Optional caller holding the lock
    callers,            \* backend: each _get_contract caller's position and locals
    st_mtime_ns,        \* backend: modification time of the program source
    builds,             \* backend: the _build_contract calls that returned, in order
    returned,           \* backend: what the finished _get_contract calls left
    _JOBS,              \* backend: job_id -> JobState
    tasks               \* backend: each _process_job task's position and locals

vars == <<built, args, contract, parser, raised, line, output, raw_value, field,
          value, handle, continue_on_error, line_number, records, issues,
          structure_issues, error, result, source_lines, stack, nodes,
          current_structure, current_fields, current_group_fields,
          current_position, templates_by_structure, records_by_name,
          record_nodes, selected_specs, flattened, _CONTRACT_CACHE, _CONTRACT_LOCK,
          callers, st_mtime_ns, builds, returned, _JOBS, tasks>>

constructionVars == <<built, args, contract, parser>>
lineVars == <<line, output>>
coerceVars == <<raw_value, field, value>>
fileVars == <<handle, continue_on_error, line_number, records, issues,
              structure_issues, error, result>>

layoutVars == <<source_lines, stack, nodes, current_structure, current_fields,
                current_group_fields, current_position, templates_by_structure,
                records_by_name>>

flattenVars == <<record_nodes, selected_specs, flattened>>
cacheVars == <<_CONTRACT_CACHE, _CONTRACT_LOCK, callers, st_mtime_ns, builds, returned>>
jobVars == <<_JOBS, tasks>>

None == <<>>
Some(x) == <<x>>

(***************************************************************************)
(* Bounds of the model.                                                    *)
(***************************************************************************)
MaxPos == 3          \* largest field start / line_length drawn
MaxFieldLen == 2     \* largest field length drawn
MaxRawLen == 4       \* longest raw slice enumerated for _coerce_value
MaxDecimals == 2     \* largest FieldSpec.decimals drawn
MaxLineLength == 3   \* largest contract line_length drawn for parse_line
MaxRow == 2          \* largest row_index handed to _render_line
MaxFileLines == 3    \* longest input file handed to parse_file
MaxStreamLines == 4  \* longest record stream handed to _validate_structure
MaxPicItems == 3     \* most items (symbol, optional repeat) in a picture drawn
MaxSourceLines == 4  \* longest COBOL source handed to _build_tree
MaxDeclLines == 5    \* longest PL/I source handed to _build_record_specs_from_text

(***************************************************************************)
(* Generic sequence helpers (Python built-ins).                            *)
(***************************************************************************)
Range(s) == {s[i] : i \in DOMAIN s}

\* The element of a singleton.  The({e : x \in {v}}) is e with x bound to the
\* value of v, computed once, as a Python local variable is.
The(S) == CHOOSE r \in S : TRUE

Min(a, b) == IF a < b THEN a ELSE b

Max(a, b) == IF a > b THEN a ELSE b

RECURSIVE SumSeq(_)
SumSeq(s) == IF s = <<>> THEN 0 ELSE s[1] + SumSeq(Tail(s))

\* Python s[lo:hi] for 0 <= lo, 0 <= hi (0-based, hi exclusive, clipped to len(s)).
Slice(s, lo, hi) ==
    LET h == Min(hi, Len(s))
    IN  IF lo >= h THEN <<>> ELSE [i \in 1..(h - lo) |-> s[lo + i]]

\* sorted(s, key=lambda f: f.start): stable insertion sort.
RECURSIVE InsertByStart(_, _)
InsertByStart(sorted, f) ==
    IF sorted = <<>> THEN <<f>>
    ELSE IF sorted[Len(sorted)].start <= f.start THEN Append(sorted, f)
    ELSE Append(InsertByStart(SubSeq(sorted, 1, Len(sorted) - 1), f), sorted[Len(sorted)])

RECURSIVE SortedByStart(_)
SortedByStart(s) ==
    IF s = <<>> THEN <<>>
    ELSE InsertByStart(SortedByStart(SubSeq(s, 1, Len(s) - 1)), s[Len(s)])

(***************************************************************************)
(* models.py: FieldSpec, SelectorSpec, RecordSpec, ContractSpec.           *)
(***************************************************************************)
FieldType == {"string", "integer", "decimal", "date", "sign"}

\* FieldSpec.end / SelectorSpec.end
end(f) == f.start + f.length - 1

\* RecordSpec.sum_of_lengths
sum_of_lengths(record) == SumSeq([i \in DOMAIN record.fields |-> record.fields[i].length])

\* RecordSpec.max_end
RECURSIVE MaxOf(_)
MaxOf(s) == IF Len(s) = 1 THEN s[1] ELSE Max(s[1], MaxOf(Tail(s)))

max_end(record) == MaxOf([i \in DOMAIN record.fields |-> end(record.fields[i])])

\* RecordSpec.validate_unique_field_names: TRUE when the validator passes.
validate_unique_field_names(fields) ==
    LET names == [i \in DOMAIN fields |-> fields[i].name]
        count(n) == Cardinality({i \in DOMAIN names : names[i] = n})
        duplicates == {names[i] : i \in {j \in DOMAIN names : count(names[j]) > 1}}
    IN  duplicates = {}

\* The loop of validate_field_positions over the sorted fields.
RECURSIVE PositionsLoop(_, _)
PositionsLoop(ordered, previous_end) ==
    IF ordered = <<>> THEN TRUE
    ELSE IF ordered[1].start <= previous_end THEN FALSE
    ELSE PositionsLoop(Tail(ordered), end(ordered[1]))

RECURSIVE PositionsLoopOffByOne(_, _)
PositionsLoopOffByOne(ordered, previous_end) ==
    IF ordered = <<>> THEN TRUE
    ELSE IF ordered[1].start < previous_end THEN FALSE
    ELSE PositionsLoopOffByOne(Tail(ordered), end(ordered[1]))

\* Mutant: `field.start < previous_end` lets a field start on the previous end.
validate_field_positions_lt(fields) ==
    PositionsLoopOffByOne(SortedByStart(fields), 0)

\* RecordSpec.validate_field_positions: TRUE when the validator passes.
validate_field_positions(fields) ==
    PositionsLoop(SortedByStart(fields), 0)

\* RecordSpec(name=..., selector=..., fields=[...]): the object, or None on ValueError.
RecordSpec(name, selector, fields) ==
    IF /\ Len(fields) >= 1
       /\ validate_unique_field_names(fields)
       /\ validate_field_positions(fields)
    THEN Some([name |-> name, selector |-> selector, fields |-> fields])
    ELSE None

\* ContractSpec.validate_unique_record_names
validate_unique_record_names(record_types) ==
    \A i, j \in DOMAIN record_types :
        record_types[i].name = record_types[j].name => i = j

\* The loop of validate_record_ranges / _validate_contract, record by record.
RECURSIVE RangesLoop(_, _, _)
RangesLoop(record_types, line_length, strict) ==
    IF record_types = <<>> THEN TRUE
    ELSE IF max_end(record_types[1]) > line_length THEN FALSE
    ELSE IF strict /\ sum_of_lengths(record_types[1]) # line_length THEN FALSE
    ELSE RangesLoop(Tail(record_types), line_length, strict)

\* Mutant: `return self` indented into the loop, so only the first record is checked.
validate_record_ranges_first_only(record_types, line_length, strict) ==
    RangesLoop(SubSeq(record_types, 1, 1), line_length, strict)

\* ContractSpec.validate_record_ranges: TRUE when the validator passes.
validate_record_ranges(record_types, line_length, strict) ==
    RangesLoop(record_types, line_length, strict)

\* ContractSpec(...): the object, or None on ValueError.
ContractSpec(line_length, strict_length, strict_structure, rules, record_types) ==
    IF /\ line_length >= 1
       /\ Len(record_types) >= 1
       /\ validate_unique_record_names(record_types)
       /\ validate_record_ranges(record_types, line_length, strict_length)
    THEN Some([line_length |-> line_length,
               strict_length_validation |-> strict_length,
               strict_structure_validation |-> strict_structure,
               structure_rules |-> rules,
               record_types |-> record_types])
    ELSE None

\* FixedWidthParser._validate_contract: TRUE when it does not raise.
_validate_contract(c) ==
    RangesLoop(c.record_types, c.line_length, c.strict_length_validation)

(***************************************************************************)
(* parsing_engine.py: _normalize_numeric and _coerce_value.                *)
(*                                                                         *)
(* int(text) and Decimal(text) are modelled on the characters the model   *)
(* draws: digits, a leading sign, one ".", and an exponent "E".  Decimal   *)
(* arithmetic is exact within the default context's 28 digits, which the  *)
(* drawn slices never exceed; the context's Emax is kept because the      *)
(* division in _coerce_value rounds its result to the context and signals *)
(* Overflow beyond it.                                                     *)
(***************************************************************************)
DigitChars == {"0", "1", "2", "3", "4", "5", "6", "7", "8", "9"}

DigitValue(c) ==
    CASE c = "0" -> 0 [] c = "1" -> 1 [] c = "2" -> 2 [] c = "3" -> 3 [] c = "4" -> 4
      [] c = "5" -> 5 [] c = "6" -> 6 [] c = "7" -> 7 [] c = "8" -> 8 [] c = "9" -> 9

\* Default decimal context: Emax (traps InvalidOperation, DivisionByZero, Overflow).
DecimalEmax == 999999

RECURSIVE Pow10(_)
Pow10(n) == IF n <= 0 THEN 1 ELSE 10 * Pow10(n - 1)

\* The number written by the first k digits of ds.
RECURSIVE IntOfPrefix(_, _)
IntOfPrefix(ds, k) ==
    IF k = 0 THEN 0 ELSE 10 * IntOfPrefix(ds, k - 1) + DigitValue(ds[k])

IntOfDigits(ds) == IntOfPrefix(ds, Len(ds))

RECURSIVE NumDigits(_)
NumDigits(n) == IF n < 10 THEN 1 ELSE 1 + NumDigits(n \div 10)

Abs(n) == IF n < 0 THEN 0 - n ELSE n

AllDigits(s) == \A i \in DOMAIN s : s[i] \in DigitChars

\* Index of the first occurrence of c in s, 0 when absent (str.find + 1).
IndexOf(s, c) ==
    IF \E i \in DOMAIN s : s[i] = c
    THEN CHOOSE i \in DOMAIN s : s[i] = c /\ \A j \in 1..(i - 1) : s[j] # c
    ELSE 0

SelectSeqNot(s, c) == SelectSeq(s, LAMBDA x : x # c)

HasSign(s) == s # <<>> /\ s[1] \in {"-", "+"}

Unsigned(s) == IF HasSign(s) THEN Tail(s) ELSE s

Signed(s, n) == IF s # <<>> /\ s[1] = "-" THEN 0 - n ELSE n

\* str.rstrip()
rstrip(s) ==
    LET keep == {i \in DOMAIN s : s[i] # " "}
    IN  IF keep = {} THEN <<>>
        ELSE SubSeq(s, 1, CHOOSE i \in keep : \A j \in keep : j <= i)

\* str.ljust(width)
ljust(s, width) ==
    IF Len(s) >= width THEN s
    ELSE [i \in 1..width |-> IF i <= Len(s) THEN s[i] ELSE " "]

\* _normalize_numeric: value.replace(" ", "").replace(",", ".")
_normalize_numeric(v) ==
    LET kept == SelectSeqNot(v, " ")
    IN  [i \in DOMAIN kept |-> IF kept[i] = "," THEN "." ELSE kept[i]]

\* Python values.
StrValue(text) == [kind |-> "str", text |-> text, num |-> 0, scale |-> 0]
NoneValue == [kind |-> "none", text |-> <<>>, num |-> 0, scale |-> 0]
IntValue(n) == [kind |-> "int", text |-> <<>>, num |-> n, scale |-> 0]
DecimalValue(n, sc) == [kind |-> "dec", text |-> <<>>, num |-> n, scale |-> sc]
Raise(exc) == [kind |-> "raise", text |-> exc, num |-> 0, scale |-> 0]

\* int(text): the int, or ValueError.
PyInt(text) ==
    LET body == Unsigned(text)
    IN  IF body # <<>> /\ AllDigits(body)
        THEN IntValue(Signed(text, IntOfDigits(body)))
        ELSE Raise("ValueError")

\* Decimal(text): the Decimal (coefficient and exponent kept exactly), or
\* InvalidOperation.
DecimalOfParts(text, mant, expo) ==
    LET dot == IndexOf(mant, ".")
        frac == IF dot = 0 THEN 0 ELSE Len(mant) - dot
    IN  The({LET mantOk == /\ digits # <<>>
                           /\ AllDigits(digits)
                           /\ Len(mant) - Len(digits) <= 1
                 expoOk == expo = <<>> \/ (expodigits # <<>> /\ AllDigits(expodigits))
                 exponent == IF expo = <<>> THEN 0
                             ELSE Signed(expo, IntOfDigits(expodigits))
             IN  IF mantOk /\ expoOk
                 THEN DecimalValue(Signed(text, IntOfDigits(digits)), frac - exponent)
                 ELSE Raise("InvalidOperation") :
             digits \in {SelectSeqNot(mant, ".")}, expodigits \in {Unsigned(expo)}})

\* The mantissa and the exponent on either side of "E".
SplitAtExponent(text, body, e) ==
    IF e = 0 THEN DecimalOfParts(text, body, <<>>)
    ELSE IF e = Len(body) THEN Raise("InvalidOperation")
    ELSE The({DecimalOfParts(text, mant, expo) :
              mant \in {SubSeq(body, 1, e - 1)},
              expo \in {SubSeq(body, e + 1, Len(body))}})

PyDecimal(text) ==
    The({The({SplitAtExponent(text, body, e) : e \in {IndexOf(body, "E")}}) :
         body \in {Unsigned(text)}})

\* numeric / (Decimal(10) ** decimals) in the default context: the power and the
\* quotient are rounded to the context, which signals Overflow beyond Emax.
DivideByPowerOfTen(numeric, decimals) ==
    IF decimals > DecimalEmax THEN Raise("Overflow")
    ELSE IF /\ numeric.num # 0
            /\ NumDigits(Abs(numeric.num)) - 1 - (numeric.scale + decimals) > DecimalEmax
         THEN Raise("Overflow")
    ELSE DecimalValue(numeric.num, numeric.scale + decimals)

\* except (ValueError, InvalidOperation):
Caught == {"ValueError", "InvalidOperation"}

\* Mutant: the implicit scale is applied whether or not a "." is present.
ImplicitScaleAlways(normalized) == TRUE

\* `if "." not in normalized`
ImplicitScale(normalized) == IndexOf(normalized, ".") = 0

\* The try block of _coerce_value: the value returned, or the exception raised in it.
CoerceTry(normalized, value_, f) ==
    IF f.type = "integer" THEN PyInt(normalized)
    ELSE IF f.type = "decimal" THEN
        LET decimals == IF f.decimals = None THEN 0 ELSE f.decimals[1]
            numeric == PyDecimal(normalized)
        IN  IF numeric.kind = "raise" THEN numeric
            ELSE IF ImplicitScale(normalized)
                 THEN DivideByPowerOfTen(numeric, decimals)
            ELSE numeric
    ELSE StrValue(value_)

\* _coerce_value(raw_value, field): the value returned, or Raise(exc) when an
\* exception leaves the function.
\* _coerce_value from `normalized = _normalize_numeric(value)` on.
CoerceNumeric(normalized, value_, f) ==
    IF normalized = <<>> THEN NoneValue
    ELSE The({IF tried.kind = "raise" /\ tried.text \in Caught
              THEN StrValue(value_)
              ELSE tried :
              tried \in {CoerceTry(normalized, value_, f)}})

_coerce_value(raw, f) ==
    The({IF f.type \in {"string", "date", "sign"} THEN StrValue(value_)
         ELSE The({CoerceNumeric(normalized, value_, f) :
                   normalized \in {_normalize_numeric(value_)}}) :
         value_ \in {rstrip(raw)}})

(***************************************************************************)
(* parsing_engine.py: FixedWidthParser._record_for_line and parse_line.    *)
(***************************************************************************)
\* `line[start:end] == record.selector.value` with start = selector.start - 1.
SelectorMatchesFromStart(record, text) ==
    Slice(text, record.selector.start,
          record.selector.start + record.selector.length) = record.selector.value

SelectorMatches(record, text) ==
    Slice(text, record.selector.start - 1,
          record.selector.start - 1 + record.selector.length) = record.selector.value

\* The for loop of _record_for_line: index of the first matching record, 0 if none.
FirstMatch(record_types, text) ==
    IF \E i \in DOMAIN record_types : SelectorMatches(record_types[i], text)
    THEN CHOOSE i \in DOMAIN record_types :
            /\ SelectorMatches(record_types[i], text)
            /\ \A j \in 1..(i - 1) : ~SelectorMatches(record_types[j], text)
    ELSE 0

\* Mutant: the single-layout fallback without its `len(...) == 1` test.
_record_for_line_always_fallback(c, text) ==
    IF FirstMatch(c.record_types, text) # 0 THEN FirstMatch(c.record_types, text)
    ELSE 1

\* _record_for_line: index of the RecordSpec returned, 0 for None.
_record_for_line(c, text) ==
    IF FirstMatch(c.record_types, text) # 0 THEN FirstMatch(c.record_types, text)
    ELSE IF Len(c.record_types) = 1 THEN 1
    ELSE 0

\* Mutant: a short line is used as it is (no ljust).
effective_line_no_pad(c, text) ==
    IF Len(text) # c.line_length
    THEN IF c.strict_length_validation THEN None
         ELSE IF Len(text) < c.line_length THEN Some(text)
         ELSE Some(Slice(text, 0, c.line_length))
    ELSE Some(text)

\* parse_line, lines 90-99: the effective line, None when the length error is raised.
effective_line(c, text) ==
    IF Len(text) # c.line_length
    THEN IF c.strict_length_validation THEN None
         ELSE IF Len(text) < c.line_length THEN Some(ljust(text, c.line_length))
         ELSE Some(Slice(text, 0, c.line_length))
    ELSE Some(text)

\* What parse_line hands back: the record (output dict, in insertion order, with
\* the raw slice of every field kept beside its value) or the exception raised.
Decoded(name, n, raws, values) ==
    [kind |-> "record", record_type |-> name, line_number |-> n,
     raw |-> raws, values |-> values, exc |-> "", message |-> <<>>]

Failed(exc, message, n) ==
    [kind |-> "raise", record_type |-> "", line_number |-> n,
     raw |-> <<>>, values |-> <<>>, exc |-> exc, message |-> message]

\* The field loop of parse_line.
DecodeFields(record, text, n) ==
    LET raws == [k \in DOMAIN record.fields |->
                    Slice(text, record.fields[k].start - 1,
                          record.fields[k].start - 1 + record.fields[k].length)]
        vals == [k \in DOMAIN record.fields |->
                    The({_coerce_value(raw, record.fields[k]) : raw \in {raws[k]}})]
        bad == {k \in DOMAIN vals : vals[k].kind = "raise"}
    IN  IF bad # {}
        THEN Failed(vals[CHOOSE k \in bad : \A j \in bad : k <= j].text, <<"coerce">>, n)
        ELSE Decoded(record.name, n, raws,
                     [k \in DOMAIN vals |-> <<record.fields[k].name, vals[k]>>])

\* FixedWidthParser.parse_line(line, line_number)
parse_line(c, text, n) ==
    The({IF eff = None
         THEN Failed("ParsingError", <<"length", n, Len(text), c.line_length>>, n)
         ELSE The({IF r = 0 THEN Failed("ParsingError", <<"unknown", n>>, n)
                   ELSE DecodeFields(c.record_types[r], eff[1], n) :
                   r \in {_record_for_line(c, eff[1])}}) :
         eff \in {effective_line(c, text)}})

(***************************************************************************)
(* idil_structure_rules.py: _build_default_rules.                          *)
(***************************************************************************)
StructureRule(label, record_name, scope, min_occurs, max_occurs, order_index) ==
    [label |-> label, record_name |-> record_name, scope |-> scope,
     min_occurs |-> min_occurs, max_occurs |-> max_occurs, order_index |-> order_index]

_build_default_rules ==
    <<StructureRule("FIC", "FIC", "file", 1, Some(1), 1),
      StructureRule("ENT", "ENT", "invoice", 1, Some(1), 2),
      StructureRule("ECH", "ECH", "invoice", 1, None, 3),
      StructureRule("COM", "COM", "invoice", 0, None, 4),
      StructureRule("REF(E)", "REF", "invoice", 0, None, 5),
      StructureRule("ADR", "ADR", "invoice", 1, Some(1), 6),
      StructureRule("AD2", "AD2", "invoice", 1, Some(1), 7),
      StructureRule("LIG", "LIG", "invoice", 1, None, 8),
      StructureRule("REF(L)", "REF", "line", 0, None, 9),
      StructureRule("LEC", "LEC", "line", 0, None, 10),
      StructureRule("PIE", "PIE", "invoice", 0, None, 11)>>

(***************************************************************************)
(* parsing_engine.py: _structure_rule, _check_occurrence,                  *)
(* _validate_structure.  A ParseIssue message is kept as the tuple of the  *)
(* values its f-string is built from.                                      *)
(***************************************************************************)
ParseIssue(n, message, raw_line) ==
    [line_number |-> n, message |-> message, raw_line |-> raw_line]

\* _structure_rule(label): Optional rule.
_structure_rule(c, label) ==
    LET hits == {i \in DOMAIN c.structure_rules : c.structure_rules[i].label = label}
    IN  IF hits = {} THEN None
        ELSE Some(c.structure_rules[CHOOSE i \in hits : \A j \in hits : i <= j])

\* Mutant: an occurrence one below the minimum is tolerated.
BelowMinimumByTwo(count, rule) == count < rule.min_occurs - 1

\* Line 133: `if count < rule.min_occurs`.
BelowMinimum(count, rule) == count < rule.min_occurs

\* _check_occurrence(...): the issues it appends.
_check_occurrence(c, label, count, n) ==
    LET rule == _structure_rule(c, label)
    IN  IF rule = None THEN <<>>
        ELSE (IF BelowMinimum(count, rule[1])
              THEN <<ParseIssue(n, <<"minimum", label, rule[1].min_occurs, count>>, <<>>)>>
              ELSE <<>>)
             \o (IF rule[1].max_occurs # None /\ count > rule[1].max_occurs[1]
                 THEN <<ParseIssue(n, <<"maximum", label, rule[1].max_occurs[1], count>>, <<>>)>>
                 ELSE <<>>)

order_by_label(label) ==
    CASE label = "ENT" -> 2 [] label = "ECH" -> 3 [] label = "COM" -> 4
      [] label = "REF(E)" -> 5 [] label = "ADR" -> 6 [] label = "AD2" -> 7
      [] label = "LIG" -> 8 [] label = "REF(L)" -> 9 [] label = "LEC" -> 10
      [] label = "PIE" -> 11

CountType(block, type) == Cardinality({i \in DOMAIN block : block[i].record_type = type})

\* Lines 181-209: the invoice blocks and the issues for records before the first ENT.
\* st = [blocks, current (Optional block), issues].
RECURSIVE SplitBlocks(_, _)
SplitBlocks(recs, st) ==
    IF recs = <<>>
    THEN [st EXCEPT !.blocks = IF st.current # None THEN Append(@, st.current[1]) ELSE @]
    ELSE LET record == recs[1]
             next ==
                IF record.record_type = "FIC" THEN st
                ELSE IF record.record_type = "ENT"
                     THEN [st EXCEPT
                             !.blocks = IF st.current # None
                                        THEN Append(@, st.current[1]) ELSE @,
                             !.current = Some(<<record>>)]
                ELSE IF st.current = None
                     THEN [st EXCEPT !.issues =
                             Append(@, ParseIssue(record.line_number,
                                                  <<"before-first-ENT", record.record_type>>,
                                                  <<>>))]
                ELSE [st EXCEPT !.current = Some(Append(st.current[1], record))]
         IN  SplitBlocks(Tail(recs), next)

\* Mutant: a record of the same order index as the last one is out of sequence too.
OutOfSequenceOrEqual(current_order, last_order) == current_order <= last_order

\* Line 306: `if current_order < last_order`.
OutOfSequence(current_order, last_order) == current_order < last_order

\* Mutant: a REF is scoped by the order reached, not by the LIG seen.
LineScopedByOrder(st) == st.last_order >= order_by_label("LIG")

\* Line 266: `if seen_lig`.
LineScoped(st) == st.seen_lig

\* One iteration of the loop over block[1:], lines 243-318.
\* st = [header_ref_count, line_segments, current_line (Optional), seen_lig,
\*       last_order, issues].
WalkStep(st, record) ==
    LET record_type == record.record_type
        n == record.line_number
        lig == order_by_label("LIG")
        \* lines 306-318, for the branches that fall through to the order test
        ordered(s, current_order) ==
            IF OutOfSequence(current_order, s.last_order)
            THEN [s EXCEPT !.issues =
                    Append(@, ParseIssue(n, <<"out-of-sequence", record_type>>, <<>>))]
            ELSE [s EXCEPT !.last_order = current_order]
    IN  IF record_type = "LIG" THEN
            [st EXCEPT
               !.seen_lig = TRUE,
               !.line_segments = IF st.current_line # None
                                 THEN Append(@, st.current_line[1]) ELSE @,
               !.current_line = Some([line_number |-> n, ref |-> 0, lec |-> 0]),
               !.issues = IF /\ st.last_order \notin {order_by_label("LIG"),
                                                      order_by_label("REF(L)"),
                                                      order_by_label("LEC")}
                             /\ lig < st.last_order
                          THEN Append(@, ParseIssue(n, <<"around-LIG">>, <<>>))
                          ELSE @,
               !.last_order = lig]
        ELSE IF record_type = "REF" THEN
            IF LineScoped(st)
            THEN ordered(IF st.current_line = None
                         THEN [st EXCEPT !.issues =
                                 Append(@, ParseIssue(n, <<"REF-without-LIG">>, <<>>))]
                         ELSE [st EXCEPT !.current_line =
                                 Some([st.current_line[1] EXCEPT !.ref = @ + 1])],
                         order_by_label("REF(L)"))
            ELSE ordered([st EXCEPT !.header_ref_count = @ + 1], order_by_label("REF(E)"))
        ELSE IF record_type = "LEC" THEN
            ordered(IF st.current_line = None
                    THEN [st EXCEPT !.issues =
                            Append(@, ParseIssue(n, <<"LEC-without-LIG">>, <<>>))]
                    ELSE [st EXCEPT !.current_line =
                            Some([st.current_line[1] EXCEPT !.lec = @ + 1])],
                    order_by_label("LEC"))
        ELSE IF record_type \in {"ECH", "COM", "ADR", "AD2", "PIE"} THEN
            ordered(st, order_by_label(record_type))
        ELSE st

RECURSIVE WalkBlock(_, _)
WalkBlock(recs, st) ==
    IF recs = <<>> THEN st ELSE WalkBlock(Tail(recs), WalkStep(st, recs[1]))

\* Concatenation of a sequence of sequences.
RECURSIVE Flatten(_)
Flatten(ss) == IF ss = <<>> THEN <<>> ELSE ss[1] \o Flatten(Tail(ss))

\* The body of `for block in invoice_blocks`, lines 234-379: the issues it appends.
BlockIssues(c, block) ==
    LET ent_line == block[1].line_number
        walked == WalkBlock(Tail(block),
                            [header_ref_count |-> 0, line_segments |-> <<>>,
                             current_line |-> None, seen_lig |-> FALSE,
                             last_order |-> order_by_label("ENT"), issues |-> <<>>])
        line_segments == IF walked.current_line # None
                         THEN Append(walked.line_segments, walked.current_line[1])
                         ELSE walked.line_segments
    IN  walked.issues
        \o _check_occurrence(c, "ENT", 1, ent_line)
        \o _check_occurrence(c, "ECH", CountType(block, "ECH"), ent_line)
        \o _check_occurrence(c, "COM", CountType(block, "COM"), ent_line)
        \o _check_occurrence(c, "REF(E)", walked.header_ref_count, ent_line)
        \o _check_occurrence(c, "ADR", CountType(block, "ADR"), ent_line)
        \o _check_occurrence(c, "AD2", CountType(block, "AD2"), ent_line)
        \o _check_occurrence(c, "LIG", CountType(block, "LIG"), ent_line)
        \o _check_occurrence(c, "PIE", CountType(block, "PIE"), ent_line)
        \o Flatten([k \in DOMAIN line_segments |->
                      _check_occurrence(c, "REF(L)", line_segments[k].ref,
                                        line_segments[k].line_number)
                      \o _check_occurrence(c, "LEC", line_segments[k].lec,
                                           line_segments[k].line_number)])

\* FixedWidthParser._validate_structure(records): the list of issues returned.
_validate_structure(c, recs) ==
    IF c.structure_rules = <<>> THEN <<>>
    ELSE IF recs = <<>> THEN <<ParseIssue(0, <<"no-record">>, <<>>)>>
    ELSE
      LET fic_positions == SelectSeq(recs, LAMBDA r : r.record_type = "FIC")
          head == _check_occurrence(c, "FIC", Len(fic_positions),
                                    IF fic_positions # <<>>
                                    THEN fic_positions[1].line_number ELSE 0)
                  \o (IF fic_positions # <<>> /\ recs[1].record_type # "FIC"
                      THEN <<ParseIssue(recs[1].line_number, <<"first-must-be-FIC">>, <<>>)>>
                      ELSE <<>>)
          split == SplitBlocks(recs, [blocks |-> <<>>, current |-> None, issues |-> head])
      IN  IF split.blocks = <<>>
          THEN Append(split.issues, ParseIssue(0, <<"no-invoice-block">>, <<>>))
          ELSE split.issues
               \o Flatten([b \in DOMAIN split.blocks |-> BlockIssues(c, split.blocks[b])])

(***************************************************************************)
(* test_samples/generate_samples.py: _tokenize, _field_value, _render_line *)
(***************************************************************************)
\* str.upper() on the characters field names are drawn from.
Upper(ch) == CASE ch = "a" -> "A" [] ch = "b" -> "B" [] OTHER -> ch

UpperAlnum == {"A", "B", "D", "E", "N", "X"} \cup DigitChars

\* re.sub(r"[^A-Z0-9]", "", name.upper()) or "X"
_tokenize(name) ==
    LET kept == SelectSeq([i \in DOMAIN name |-> Upper(name[i])],
                          LAMBDA ch : ch \in UpperAlnum)
    IN  IF kept = <<>> THEN <<"X">> ELSE kept

DigitChar(d) ==
    CASE d = 0 -> "0" [] d = 1 -> "1" [] d = 2 -> "2" [] d = 3 -> "3" [] d = 4 -> "4"
      [] d = 5 -> "5" [] d = 6 -> "6" [] d = 7 -> "7" [] d = 8 -> "8" [] d = 9 -> "9"

\* str(n) for n >= 0
RECURSIVE str(_)
str(n) == IF n < 10 THEN <<DigitChar(n)>> ELSE Append(str(n \div 10), DigitChar(n % 10))

\* _field_value(field, row_index)
_field_value(f, row_index) ==
    IF f.length <= 0 THEN <<>>
    ELSE IF f.type \in {"integer", "decimal"}
         THEN [i \in 1..f.length |-> DigitChar((row_index % 9) + 1)]
    ELSE LET raw == _tokenize(f.name) \o str(row_index)
         IN  IF Len(raw) >= f.length THEN Slice(raw, 0, f.length)
             ELSE ljust(raw, f.length)

\* Writes text into buffer from 0-based offset start, stopping at the buffer's end.
WriteAt(buffer, start, text) ==
    [i \in DOMAIN buffer |->
        IF i - 1 >= start /\ i - 1 < start + Len(text) /\ i - 1 >= 0
        THEN text[i - start] ELSE buffer[i]]

\* Mutant: no field is skipped, so a field may be written over the selector.
SkipsFieldNever(f, selector) == FALSE

\* `if start < selector_end and end > selector_start: continue`
SkipsField(f, selector) ==
    /\ f.start - 1 < selector.start - 1 + selector.length
    /\ f.start - 1 + f.length > selector.start - 1

\* The field loop of _render_line over sorted(record.fields, key=start).
RECURSIVE RenderFields(_, _, _, _)
RenderFields(buffer, fields, selector, row_index) ==
    IF fields = <<>> THEN buffer
    ELSE LET f == fields[1]
             skipped == \/ SkipsField(f, selector)
                        \/ f.start - 1 < 0
                        \/ f.start - 1 >= Len(buffer)
         IN  RenderFields(IF skipped THEN buffer
                          ELSE WriteAt(buffer, f.start - 1, _field_value(f, row_index)),
                          Tail(fields), selector, row_index)

\* _render_line(record, line_length, row_index)
_render_line(record, line_length, row_index) ==
    LET blank == [i \in 1..line_length |-> " "]
        withSelector == WriteAt(blank, record.selector.start - 1,
                                Slice(record.selector.value, 0, record.selector.length))
    IN  RenderFields(withSelector, SortedByStart(record.fields), record.selector,
                     row_index)

(***************************************************************************)
(* Inputs drawn for the construction operations.                           *)
(***************************************************************************)
FieldNames == {<<"A">>, <<"B">>}

\* Record names in declaration order; a contract draws a prefix of them.
RecordNames == <<"ENT", "ADR">>

StringField(name, start, length) ==
    [name |-> name, start |-> start, length |-> length, type |-> "string",
     decimals |-> None]

LayoutFields ==
    {StringField(n, s, l) : n \in FieldNames, s \in 1..MaxPos, l \in 1..MaxFieldLen}

SeqsUpTo(S, n) == UNION {[1..k -> S] : k \in 1..n}

\* cobol_layout_parser.py: selector (1, 1, name[0]).
FirstCharSelector(name) ==
    [start |-> 1, length |-> 1, value |-> IF name = "ENT" THEN <<"E">> ELSE <<"A">>]

(***************************************************************************)
(* Construction: RecordSpec(...), ContractSpec(...), FixedWidthParser(...) *)
(***************************************************************************)
flattenIdle == record_nodes = None /\ selected_specs = <<>> /\ flattened = None

backendIdle ==
    /\ _CONTRACT_CACHE = <<>> /\ _CONTRACT_LOCK = None /\ callers = <<>>
    /\ st_mtime_ns = 0 /\ builds = <<>> /\ returned = {}
    /\ _JOBS = <<>> /\ tasks = <<>>

layoutIdle ==
    /\ source_lines = <<>> /\ stack = <<>> /\ nodes = <<>>
    /\ current_structure = None /\ current_fields = <<>>
    /\ current_group_fields = <<>> /\ current_position = 0
    /\ templates_by_structure = <<>> /\ records_by_name = <<>>

idle ==
    /\ line = None /\ output = None
    /\ raw_value = None /\ field = None /\ value = None
    /\ handle = <<>> /\ continue_on_error = FALSE /\ line_number = 0
    /\ records = <<>> /\ issues = <<>> /\ structure_issues = None
    /\ error = None /\ result = None
    /\ layoutIdle /\ flattenIdle /\ backendIdle

InitContract ==
    /\ built = <<>> /\ args = None /\ contract = None /\ parser = None
    /\ raised = None
    /\ idle

NewRecordSpec ==
    /\ raised = None /\ contract = None /\ Len(built) < Len(RecordNames)
    /\ \E fields \in SeqsUpTo(LayoutFields, Cardinality(FieldNames)) :
         LET name == RecordNames[Len(built) + 1]
             made == RecordSpec(name, FirstCharSelector(name), fields)
         IN  /\ args' = Some([op |-> "RecordSpec", fields |-> fields])
             /\ built' = IF made = None THEN built ELSE Append(built, made[1])
             /\ raised' = IF made = None THEN Some("ValueError") ELSE None
    /\ UNCHANGED <<flattenVars, cacheVars, jobVars, contract, parser, lineVars, coerceVars, layoutVars, fileVars>>

NewContractSpec ==
    /\ raised = None /\ contract = None /\ built # <<>>
    /\ \E line_length \in 1..MaxPos + 1, strict \in BOOLEAN :
         LET made == ContractSpec(line_length, strict, FALSE, <<>>, built)
         IN  /\ args' = Some([op |-> "ContractSpec", line_length |-> line_length,
                              strict |-> strict, record_types |-> built])
             /\ contract' = made
             /\ raised' = IF made = None THEN Some("ValueError") ELSE None
    /\ UNCHANGED <<flattenVars, cacheVars, jobVars, built, parser, lineVars, coerceVars, layoutVars, fileVars>>

NewFixedWidthParser ==
    /\ raised = None /\ contract # None /\ parser = None
    /\ parser' = IF _validate_contract(contract[1]) THEN contract ELSE None
    /\ raised' = IF _validate_contract(contract[1]) THEN None
                 ELSE Some("ContractValidationError")
    /\ UNCHANGED <<flattenVars, cacheVars, jobVars, built, args, contract, lineVars, coerceVars, layoutVars, fileVars>>

NextContract == NewRecordSpec \/ NewContractSpec \/ NewFixedWidthParser

SpecContract == InitContract /\ [][NextContract]_vars

\* The bytes a field occupies.
Bytes(f) == f.start .. (f.start + f.length - 1)

RangesHold(line_length, strict, record_types) ==
    \A i \in DOMAIN record_types :
        LET fs == record_types[i].fields
        IN  /\ \A k \in DOMAIN fs : \A b \in Bytes(fs[k]) : b <= line_length
            /\ strict => SumSeq([k \in DOMAIN fs |-> fs[k].length]) = line_length

\* C1: every ContractSpec that construction accepts, and every contract a
\* FixedWidthParser accepts, has max_end <= line_length for each record type and,
\* when strict_length_validation is set, sum_of_lengths = line_length; a
\* ContractSpec call whose records violate either condition raises and leaves no
\* contract and no parser.
C1_AcceptedContractsRespectRanges ==
    /\ contract # None =>
          RangesHold(contract[1].line_length, contract[1].strict_length_validation,
                     contract[1].record_types)
    /\ parser # None =>
          RangesHold(parser[1].line_length, parser[1].strict_length_validation,
                     parser[1].record_types)
    /\ (/\ args # None
        /\ args[1].op = "ContractSpec"
        /\ ~RangesHold(args[1].line_length, args[1].strict, args[1].record_types))
          => contract = None /\ parser = None /\ raised = Some("ValueError")

\* A strict two-record contract was accepted and a parser built on it.
C1_Witness ==
    /\ parser # None
    /\ parser[1].strict_length_validation
    /\ Len(parser[1].record_types) = 2
    /\ Len(parser[1].record_types[2].fields) = 2

DistinctNames(fields) ==
    \A i, j \in DOMAIN fields : i # j => fields[i].name # fields[j].name

NoSharedByte(fields) ==
    \A i, j \in DOMAIN fields : i # j => Bytes(fields[i]) \cap Bytes(fields[j]) = {}

\* C2: every RecordSpec that construction accepts has pairwise distinct field
\* names and no two fields sharing a byte, whatever the declaration order; a
\* field list violating either condition raises and yields no RecordSpec.
C2_AcceptedRecordsDoNotOverlap ==
    /\ \A i \in DOMAIN built :
          DistinctNames(built[i].fields) /\ NoSharedByte(built[i].fields)
    /\ (/\ args # None
        /\ args[1].op = "RecordSpec"
        /\ ~(DistinctNames(args[1].fields) /\ NoSharedByte(args[1].fields)))
          => raised = Some("ValueError")

\* A record whose fields were declared in descending start order was accepted.
C2_Witness ==
    \E i \in DOMAIN built :
        /\ Len(built[i].fields) = 2
        /\ built[i].fields[1].start > built[i].fields[2].start

(***************************************************************************)
(* Field coercion: _coerce_value applied to drawn slices and fields.       *)
(***************************************************************************)
RawAlphabet == {"0", "1", " ", ",", ".", "E", "-"}

StringsUpTo(S, n) == UNION {[1..k -> S] : k \in 0..n}

\* A slice of exponent notation too large for the decimal context: "1E1000000".
ExponentSlice == <<"1", "E", "1", "0", "0", "0", "0", "0", "0">>

RawValues == StringsUpTo(RawAlphabet, MaxRawLen) \cup {ExponentSlice}

\* FieldSpec with validate_decimal_constraints: decimals iff type is decimal.
TypedField(name, start, length, type, decimals) ==
    [name |-> name, start |-> start, length |-> length, type |-> type,
     decimals |-> decimals]

CoerceFields(length) ==
    {TypedField(<<"A">>, 1, length, t, None) : t \in FieldType \ {"decimal"}}
    \cup {TypedField(<<"A">>, 1, length, "decimal", Some(d)) : d \in 0..MaxDecimals}

InitCoerce ==
    /\ built = <<>> /\ args = None /\ contract = None /\ parser = None
    /\ raised = None
    /\ line = None /\ output = None
    /\ handle = <<>> /\ continue_on_error = FALSE /\ line_number = 0
    /\ records = <<>> /\ issues = <<>> /\ structure_issues = None
    /\ error = None /\ result = None
    /\ value = None
    /\ layoutIdle /\ flattenIdle /\ backendIdle
    /\ \E raw \in RawValues \ {<<>>} :
         /\ raw_value = Some(raw)
         /\ \E f \in CoerceFields(Len(raw)) : field = Some(f)

Coerce ==
    /\ value = None /\ raised = None /\ raw_value # None
    /\ LET v == _coerce_value(raw_value[1], field[1])
       IN  /\ value' = IF v.kind = "raise" THEN None ELSE Some(v)
           /\ raised' = IF v.kind = "raise" THEN Some(v.text) ELSE None
    /\ UNCHANGED <<flattenVars, cacheVars, jobVars, constructionVars, lineVars, raw_value, field, layoutVars, fileVars>>

NextCoerce == Coerce

SpecCoerce == InitCoerce /\ [][NextCoerce]_vars

Coerced == value # None \/ raised # None

\* The slice with trailing and embedded spaces removed.
Compact(raw) == SelectSeqNot(raw, " ")

IsSeparator(c) == c \in {",", "."}

\* The value the digits of a numeral denote, times 10^k.
Digits(text) == SelectSeq(text, LAMBDA c : c \in DigitChars)

\* v is the Decimal n / 10^k.
IsDecimal(v, n, k) ==
    /\ v.kind = "dec"
    /\ v.scale >= 0
    /\ v.num * Pow10(k) = n * Pow10(v.scale)

\* C6: in a decimal field with decimals = d, a slice that (spaces removed) is
\* only digits decodes to that integer divided by 10^d; a slice of digits with
\* one literal separator (comma or dot) decodes to its face value, whatever d.
C6_ImplicitDecimalScaling ==
    (Coerced /\ field[1].type = "decimal") =>
        LET text == Compact(raw_value[1])
            d == field[1].decimals[1]
            seps == {i \in DOMAIN text : IsSeparator(text[i])}
        IN  /\ (text # <<>> /\ AllDigits(text)) =>
                  (value # None /\ IsDecimal(value[1], IntOfDigits(text), d))
            /\ (/\ Cardinality(seps) = 1
                /\ Digits(text) # <<>>
                /\ Len(Digits(text)) = Len(text) - 1) =>
                  LET after == Len(text) - (CHOOSE i \in seps : TRUE)
                  IN  value # None
                      /\ IsDecimal(value[1], IntOfDigits(Digits(text)), after)

\* "011" with decimals = 2 was decoded (to 0.11).
C6_Witness ==
    /\ value # None
    /\ field[1].type = "decimal"
    /\ field[1].decimals = Some(2)
    /\ raw_value[1] = <<"0", "1", "1">>
    /\ value[1].kind = "dec"

\* C7: _coerce_value never raises: it returns the right-trimmed text for
\* string/date/sign fields, null for a numeric field whose normalized text is
\* empty, and otherwise the number or the trimmed original string.
C7_CoercionNeverRaises ==
    Coerced =>
        /\ raised = None
        /\ value # None
        /\ field[1].type \in {"string", "date", "sign"} =>
              value[1] = StrValue(rstrip(raw_value[1]))
        /\ (field[1].type \in {"integer", "decimal"} /\ Compact(raw_value[1]) = <<>>) =>
              value[1].kind = "none"
        /\ (field[1].type \in {"integer", "decimal"} /\ Compact(raw_value[1]) # <<>>) =>
              \/ value[1].kind \in {"int", "dec"}
              \/ value[1] = StrValue(rstrip(raw_value[1]))

(***************************************************************************)
(* Line decoding: parse_line on drawn lines and on lines _render_line      *)
(* produced, under every contract of a drawn family.                       *)
(***************************************************************************)
LineAlphabet == {"E", "A", "1", " "}

\* (start, length, value): two selectors on byte 1, one on byte 2, and one whose
\* value is shorter than its byte range.
LineSelectors ==
    {[start |-> 1, length |-> 1, value |-> <<"E">>],
     [start |-> 1, length |-> 1, value |-> <<"A">>],
     [start |-> 2, length |-> 1, value |-> <<"A">>],
     [start |-> 1, length |-> 2, value |-> <<"E">>]}

\* Field lists for a line of length n: one string over the whole line; an integer
\* declared before the string it follows; a string and a decimal; one integer on
\* byte 2 with byte 1 left as filler.
Layouts(n) ==
    {<<TypedField(<<"a", "_">>, 1, n, "string", None)>>,
     <<TypedField(<<"N">>, 2, n - 1, "integer", None),
       TypedField(<<"a", "_">>, 1, 1, "string", None)>>,
     <<TypedField(<<"a", "_">>, 1, 1, "string", None),
       TypedField(<<"D">>, 2, n - 1, "decimal", Some(1))>>,
     <<TypedField(<<"N">>, 2, 1, "integer", None)>>}

RecordsAt(k, n) ==
    {RecordSpec(RecordNames[k], sel, fs)[1] : sel \in LineSelectors, fs \in Layouts(n)}

RecordLists(n) ==
    {<<r>> : r \in RecordsAt(1, n)}
    \cup {<<r1, r2>> : r1 \in RecordsAt(1, n), r2 \in RecordsAt(2, n)}

\* Every ContractSpec construction accepts among the drawn arguments.
LineContracts ==
    UNION {{ContractSpec(n, strict, FALSE, <<>>, rs) :
                strict \in BOOLEAN, rs \in RecordLists(n)} \ {None} :
           n \in 2..MaxLineLength}

LinesFor(c) ==
    UNION {[1..k -> LineAlphabet] : k \in (c.line_length - 1)..(c.line_length + 1)}

InitLine ==
    /\ built = <<>> /\ args = None /\ raised = None
    /\ \E c \in LineContracts : contract = c /\ parser = c
    /\ idle

ParseLine ==
    /\ parser # None /\ line = None
    /\ \E text \in LinesFor(parser[1]) :
         /\ line' = Some(text)
         /\ output' = Some(parse_line(parser[1], text, 1))
    /\ args' = Some([op |-> "parse_line"])
    /\ UNCHANGED <<flattenVars, cacheVars, jobVars, built, contract, parser, raised, coerceVars, layoutVars, fileVars>>

\* generate(): a line rendered for one record type of the contract, then decoded.
RenderAndParseLine ==
    /\ parser # None /\ line = None
    /\ \E k \in DOMAIN parser[1].record_types, row_index \in 1..MaxRow :
         LET text == _render_line(parser[1].record_types[k], parser[1].line_length,
                                  row_index)
         IN  /\ args' = Some([op |-> "_render_line", record |-> k,
                              row_index |-> row_index])
             /\ line' = Some(text)
             /\ output' = Some(parse_line(parser[1], text, row_index))
    /\ UNCHANGED <<flattenVars, cacheVars, jobVars, built, contract, parser, raised, coerceVars, layoutVars, fileVars>>

NextLine == ParseLine \/ RenderAndParseLine

SpecLine == InitLine /\ [][NextLine]_vars

\* The line brought to exactly n characters: cut, or filled with spaces on the right.
PadOrTruncate(text, n) == [i \in 1..n |-> IF i <= Len(text) THEN text[i] ELSE " "]

\* The characters of text at 1-based positions start .. start + length - 1.
BytesAt(text, start, length) ==
    LET last == Min(start + length - 1, Len(text))
    IN  IF last < start THEN <<>> ELSE [i \in 1..(last - start + 1) |-> text[start + i - 1]]

RecordNamed(c, name) ==
    CHOOSE r \in Range(c.record_types) : r.name = name

IsLengthError(out) ==
    out.kind = "raise" /\ out.exc = "ParsingError" /\ out.message[1] = "length"

IsUnknownTypeError(out) ==
    out.kind = "raise" /\ out.exc = "ParsingError" /\ out.message[1] = "unknown"

\* C3: parse_line on a line whose length differs from line_length: in strict mode
\* it raises the length-mismatch ParsingError and yields no record; in non-strict
\* mode it never raises for the length and decodes the line padded with spaces or
\* truncated to line_length, every field slice having the field's declared length.
C3_LengthMismatch ==
    (output # None /\ Len(line[1]) # parser[1].line_length) =>
        LET c == parser[1]
            out == output[1]
        IN  IF c.strict_length_validation
            THEN IsLengthError(out) /\ out.values = <<>>
            ELSE /\ ~IsLengthError(out)
                 /\ out = parse_line(c, PadOrTruncate(line[1], c.line_length),
                                     out.line_number)
                 /\ out.kind = "record" =>
                       \A k \in DOMAIN out.raw :
                           Len(out.raw[k]) = RecordNamed(c, out.record_type).fields[k].length

\* A line one character short was decoded under a non-strict contract.
C3_Witness ==
    /\ output # None
    /\ ~parser[1].strict_length_validation
    /\ Len(line[1]) = parser[1].line_length - 1
    /\ output[1].kind = "record"
    /\ Len(output[1].raw) = 2

\* C4: the decoder picks a RecordSpec whose selector byte range in the line
\* equals its selector value; with no match and exactly one record type it falls
\* back to that type; with no match and two or more record types the line fails
\* with the unknown-record-type error and yields no record.
C4_RecordTypeSelection ==
    (output # None /\ ~IsLengthError(output[1])) =>
        LET c == parser[1]
            out == output[1]
            eff == PadOrTruncate(line[1], c.line_length)
            matches == {i \in DOMAIN c.record_types :
                           BytesAt(eff, c.record_types[i].selector.start,
                                   c.record_types[i].selector.length)
                             = c.record_types[i].selector.value}
        IN  /\ matches # {} =>
                  /\ out.kind = "record"
                  /\ \E i \in matches : out.record_type = c.record_types[i].name
            /\ (matches = {} /\ Len(c.record_types) = 1) =>
                  out.kind = "record" /\ out.record_type = c.record_types[1].name
            /\ (matches = {} /\ Len(c.record_types) >= 2) =>
                  IsUnknownTypeError(out) /\ out.values = <<>>

\* A line matching neither selector of a two-record contract was refused.
C4_Witness ==
    /\ output # None
    /\ Len(parser[1].record_types) = 2
    /\ IsUnknownTypeError(output[1])

SameRangeDistinctValues(c) ==
    /\ Len(c.record_types) = 2
    /\ c.record_types[1].selector.start = c.record_types[2].selector.start
    /\ c.record_types[1].selector.length = c.record_types[2].selector.length
    /\ c.record_types[1].selector.value # c.record_types[2].selector.value

\* C5: for two contracts differing only in the order of record_types, whose
\* selectors cover the same byte range with distinct values, every line decodes
\* to the same record type (or fails alike) under both.
C5_SelectorOrderIndependent ==
    (output # None /\ SameRangeDistinctValues(parser[1])) =>
        LET c == parser[1]
            swapped == [c EXCEPT !.record_types = <<c.record_types[2], c.record_types[1]>>]
            other == parse_line(swapped, line[1], output[1].line_number)
        IN  /\ other.kind = output[1].kind
            /\ other.record_type = output[1].record_type

\* A line beginning with the second-declared selector decoded as that record type.
C5_Witness ==
    /\ output # None
    /\ SameRangeDistinctValues(parser[1])
    /\ args[1].op = "parse_line"
    /\ line[1][1] = "A"
    /\ parser[1].record_types[2].selector.value = <<"A">>
    /\ output[1].kind = "record"
    /\ output[1].record_type = parser[1].record_types[2].name

Rendered == output # None /\ args # None /\ args[1].op = "_render_line"

SharesSelectorByte(f, selector) ==
    Bytes(f) \cap (selector.start .. (selector.start + selector.length - 1)) # {}

\* The value the encoder wrote for field f, as the decoder coerces it.
OriginalValue(f, row_index) == <<f.name, _coerce_value(_field_value(f, row_index), f)>>

\* C8 as claimed: for every valid contract and every record of one of its record
\* types, rendering the selector and the field values into a line and decoding
\* it yields the same record type and, for every field, the original value.
C8_RoundTripEveryField ==
    Rendered =>
        LET rec == parser[1].record_types[args[1].record]
        IN  /\ output[1].kind = "record"
            /\ output[1].record_type = rec.name
            /\ \A k \in DOMAIN rec.fields :
                  output[1].values[k] = OriginalValue(rec.fields[k], args[1].row_index)

\* C8 as amended: the decoded record type is the rendered one whenever its
\* selector value fills its byte range inside the line and no record type declared
\* before it has a selector matching the rendered line; and then every field that
\* shares no byte with the selector range decodes to its original value.
C8_RoundTripOutsideSelector ==
    Rendered =>
        LET c == parser[1]
            rec == c.record_types[args[1].record]
            sel == rec.selector
            fills == /\ Len(sel.value) = sel.length
                     /\ sel.start + sel.length - 1 <= c.line_length
            earlier == \E j \in 1..(args[1].record - 1) :
                          BytesAt(line[1], c.record_types[j].selector.start,
                                  c.record_types[j].selector.length)
                            = c.record_types[j].selector.value
        IN  /\ (fills /\ ~earlier) =>
                  output[1].kind = "record" /\ output[1].record_type = rec.name
            /\ (output[1].kind = "record" /\ output[1].record_type = rec.name) =>
                  \A k \in DOMAIN rec.fields :
                      ~SharesSelectorByte(rec.fields[k], sel) =>
                          output[1].values[k]
                            = OriginalValue(rec.fields[k], args[1].row_index)

\* A rendered record with one field on the selector and one beside it was decoded
\* as its own type.
C8_Witness ==
    /\ Rendered
    /\ LET rec == parser[1].record_types[args[1].record]
       IN  /\ output[1].kind = "record"
           /\ output[1].record_type = rec.name
           /\ Len(parser[1].record_types) = 2
           /\ \E k \in DOMAIN rec.fields : SharesSelectorByte(rec.fields[k], rec.selector)
           /\ \E k \in DOMAIN rec.fields :
                 /\ ~SharesSelectorByte(rec.fields[k], rec.selector)
                 /\ rec.fields[k].type = "decimal"


(***************************************************************************)
(* File decoding: parse_file on every file of up to MaxFileLines lines,    *)
(* under PL/I-style contracts (selector on bytes 1-3) with and without     *)
(* structure rules, for both values of each flag.                          *)
(***************************************************************************)
\* pli_layout_parser.py: selector (1, 3, record_name[:3]).
PrefixSelector(name) ==
    [start |-> 1, length |-> Len(name), value |-> name]

FIC == <<"F", "I", "C">>
ENT == <<"E", "N", "T">>
LIG == <<"L", "I", "G">>
REF == <<"R", "E", "F">>
UnknownTag == <<"X", "X", "X">>

RecordTypeName(tag) ==
    CASE tag = FIC -> "FIC" [] tag = ENT -> "ENT" [] tag = LIG -> "LIG" [] tag = REF -> "REF"

\* Every record type: its code, then an amount in whole units (decimals = 0).
FileFields ==
    <<TypedField(<<"C">>, 1, Len(ENT), "string", None),
      TypedField(<<"M">>, Len(ENT) + 1, Len(ExponentSlice), "decimal", Some(0))>>

FileRecords ==
    [k \in 1..Len(<<FIC, ENT, LIG, REF>>) |->
        LET tag == <<FIC, ENT, LIG, REF>>[k]
        IN  RecordSpec(RecordTypeName(tag), PrefixSelector(tag), FileFields)[1]]

\* No rule, the default IDIL rules, and a contract that keeps only the ENT and
\* LIG rules (so that short files can satisfy every rule).
RuleSets ==
    {<<>>, _build_default_rules,
     SelectSeq(_build_default_rules, LAMBDA r : r.label \in {"ENT", "LIG"})}

FileContracts ==
    {ContractSpec(sum_of_lengths(FileRecords[1]), TRUE, strict_structure, rules, FileRecords) :
        strict_structure \in BOOLEAN, rules \in RuleSets} \ {None}

Amount == <<"0", "0", "0", "0", "0", "0", "0", "1", "1">>

\* One well-formed line per record type, a line of an unknown type, a short
\* line, and a LIG line whose amount is the slice "1E1000000".
FileLines ==
    {tag \o Amount : tag \in {FIC, ENT, LIG, REF, UnknownTag}}
    \cup {ENT, LIG \o ExponentSlice}

Files == UNION {[1..k -> FileLines] : k \in 0..MaxFileLines}

InitFile ==
    /\ built = <<>> /\ args = None /\ raised = None
    /\ \E c \in FileContracts : contract = c /\ parser = c
    /\ line = None /\ output = None
    /\ raw_value = None /\ field = None /\ value = None
    /\ handle \in Files
    /\ continue_on_error \in BOOLEAN
    /\ line_number = 0 /\ records = <<>> /\ issues = <<>>
    /\ structure_issues = None /\ error = None /\ result = None
    /\ layoutIdle /\ flattenIdle /\ backendIdle

\* Mutant: either flag alone aborts.
raises_on_structure_either(c, coe) ==
    c.strict_structure_validation \/ ~coe

\* parse_file, line 410.
raises_on_structure(c, coe) ==
    c.strict_structure_validation /\ ~coe

\* parse_file, lines 393-401: one iteration of the loop over the file.
ReadLine ==
    /\ raised = None /\ result = None /\ line_number < Len(handle)
    /\ \E n \in {line_number + 1} : \E text \in {handle[n]} :
       \E out \in {parse_line(parser[1], text, n)} :
       LET caught == out.kind = "raise" /\ out.exc = "ParsingError"
           leaves == out.kind = "raise" /\ (out.exc # "ParsingError" \/ ~continue_on_error)
       IN  /\ line_number' = n
           /\ line' = Some(text)
           /\ output' = Some(out)
           /\ records' = IF out.kind = "record" THEN Append(records, out) ELSE records
           /\ issues' = IF caught THEN Append(issues, ParseIssue(n, out.message, text))
                        ELSE issues
           /\ raised' = IF leaves THEN Some(out.exc) ELSE None
           /\ error' = IF leaves THEN Some(out.message) ELSE None
    /\ UNCHANGED <<flattenVars, cacheVars, jobVars, constructionVars, coerceVars, layoutVars, handle, continue_on_error,
                   structure_issues, result>>

\* parse_file, lines 406-413: the file is exhausted.
EndOfFile ==
    /\ raised = None /\ result = None /\ line_number = Len(handle)
    /\ LET si == _validate_structure(parser[1], records)
           all == issues \o si
           aborts == si # <<>> /\ raises_on_structure(parser[1], continue_on_error)
       IN  /\ structure_issues' = Some(si)
           /\ issues' = all
           /\ raised' = IF aborts THEN Some("ParsingError") ELSE None
           /\ error' = IF aborts THEN Some(si[1].message) ELSE None
           /\ result' = IF aborts THEN None
                        ELSE Some([records |-> records, issues |-> all])
    /\ UNCHANGED <<flattenVars, cacheVars, jobVars, constructionVars, lineVars, coerceVars, layoutVars, handle, continue_on_error,
                   line_number, records>>

NextFile == ReadLine \/ EndOfFile

SpecFile == InitFile /\ [][NextFile]_vars

FileFinished == raised # None \/ result # None

\* C9: whatever the flags, once parse_file has finished with a diagnostic recorded
\* (a line that failed to decode, or a structural issue), its caller holds every
\* record that was decoded and the full list of diagnostics.
C9_CallerAlwaysReceivesRecords ==
    (FileFinished /\ issues # <<>>) =>
        /\ result # None
        /\ result[1].records = records
        /\ result[1].issues = issues

DecodeMessages == {"length", "unknown", "coerce"}

\* C10: structural validation runs only once every line of the file has been
\* decoded; parse_file then raises a ParsingError carrying the first structural
\* issue's message exactly when strict_structure_validation is on,
\* continue_on_error is off and there is a structural issue; otherwise the
\* structural issues are appended after the decode issues and the records returned.
C10_StructuralAbortOnlyWhenStrict ==
    /\ structure_issues = None =>
          /\ result = None
          /\ \A i \in DOMAIN issues : issues[i].message[1] \in DecodeMessages
          /\ raised # None => error[1][1] \in DecodeMessages
    /\ structure_issues # None =>
          LET si == structure_issues[1]
              decode_issues == SubSeq(issues, 1, Len(issues) - Len(si))
          IN  /\ line_number = Len(handle)
              /\ Len(records) + Len(decode_issues) = Len(handle)
              /\ \A i \in DOMAIN decode_issues :
                    decode_issues[i].message[1] \in DecodeMessages
              /\ issues = decode_issues \o si
              /\ IF /\ parser[1].strict_structure_validation
                    /\ ~continue_on_error
                    /\ si # <<>>
                 THEN /\ raised = Some("ParsingError")
                      /\ error = Some(si[1].message)
                      /\ result = None
                 ELSE /\ raised = None
                      /\ result = Some([records |-> records, issues |-> issues])

\* A strict contract without continue_on_error: two records decoded, then the
\* structural phase raised with the first of several structural issues.
C10_Witness ==
    /\ structure_issues # None
    /\ Len(structure_issues[1]) > 1
    /\ Len(records) > 1
    /\ raised = Some("ParsingError")
    /\ error = Some(structure_issues[1][1].message)

(***************************************************************************)
(* Structural validation: _validate_structure on the record stream that    *)
(* parse_file builds line by line (a line yields a record of some type, or *)
(* is skipped as undecodable), under several rule lists.                   *)
(***************************************************************************)
StreamTypes == {"FIC", "ENT", "ECH", "LIG", "REF", "LEC", "PIE"}

\* A rule whose label is not one of the IDIL labels.
CustomRule == StructureRule("TVA", "TVA", "invoice", 1, None, Len(_build_default_rules) + 1)

\* The default rules; the default rules followed by a custom rule; and rules
\* with narrower bounds on ECH (at most one per invoice) and LEC (one per line).
TightRules ==
    [k \in DOMAIN _build_default_rules |->
        IF _build_default_rules[k].label = "ECH"
        THEN [_build_default_rules[k] EXCEPT !.min_occurs = 0, !.max_occurs = Some(1)]
        ELSE IF _build_default_rules[k].label = "LEC"
        THEN [_build_default_rules[k] EXCEPT !.min_occurs = 1, !.max_occurs = Some(1)]
        ELSE _build_default_rules[k]]

StreamRuleSets ==
    {_build_default_rules, Append(_build_default_rules, CustomRule), TightRules}

StreamContracts ==
    {ContractSpec(sum_of_lengths(FileRecords[1]), TRUE, FALSE, rules, FileRecords) :
        rules \in StreamRuleSets} \ {None}

\* What _validate_structure reads of a record.
StreamRecord(type, n) == [record_type |-> type, line_number |-> n]

InitStream ==
    /\ built = <<>> /\ args = None /\ raised = None
    /\ \E c \in StreamContracts : contract = c /\ parser = c
    /\ line = None /\ output = None
    /\ raw_value = None /\ field = None /\ value = None
    /\ handle = <<>> /\ continue_on_error = TRUE
    /\ line_number = 0 /\ records = <<>> /\ issues = <<>>
    /\ structure_issues = None /\ error = None /\ result = None
    /\ layoutIdle /\ flattenIdle /\ backendIdle

\* parse_file, line 396: a line decoded to a record of some type.
DecodeRecord ==
    /\ structure_issues = None /\ line_number < MaxStreamLines
    /\ \E type \in StreamTypes :
         records' = Append(records, StreamRecord(type, line_number + 1))
    /\ line_number' = line_number + 1
    /\ UNCHANGED <<flattenVars, cacheVars, jobVars, constructionVars, raised, lineVars, coerceVars, layoutVars, handle,
                   continue_on_error, issues, structure_issues, error, result>>

\* parse_file, lines 397-401 with continue_on_error: the line yields no record.
SkipLine ==
    /\ structure_issues = None /\ line_number < MaxStreamLines
    /\ line_number' = line_number + 1
    /\ UNCHANGED <<flattenVars, cacheVars, jobVars, constructionVars, raised, lineVars, coerceVars, layoutVars, handle,
                   continue_on_error, records, issues, structure_issues, error, result>>

\* parse_file, line 406.
ValidateStructure ==
    /\ structure_issues = None
    /\ structure_issues' = Some(_validate_structure(parser[1], records))
    /\ UNCHANGED <<flattenVars, cacheVars, jobVars, constructionVars, raised, lineVars, coerceVars, layoutVars, handle,
                   continue_on_error, line_number, records, issues, error, result>>

NextStream == DecodeRecord \/ SkipLine \/ ValidateStructure

SpecStream == InitStream /\ [][NextStream]_vars

\* Positions of the stream, and the scope instances they form.
TypeAt(i) == records[i].record_type
LineOf(i) == records[i].line_number
EntPositions == {i \in DOMAIN records : TypeAt(i) = "ENT"}
\* The invoice block opened by the ENT at position e: up to the next ENT.
BlockAt(e) ==
    {i \in DOMAIN records : i >= e /\ \A j \in EntPositions : j > e => i < j}
LigPositions(e) == {i \in BlockAt(e) : TypeAt(i) = "LIG"}
\* The detail-line segment opened by the LIG at position l of block e.
SegmentAt(e, l) ==
    {i \in BlockAt(e) : i >= l /\ \A j \in LigPositions(e) : j > l => i < j}

ScopeInstances(scope) ==
    IF scope = "file" THEN {DOMAIN records}
    ELSE IF scope = "invoice" THEN {BlockAt(e) : e \in EntPositions}
    ELSE UNION {{SegmentAt(e, l) : l \in LigPositions(e)} : e \in EntPositions}

Matching(instance, rule) ==
    Cardinality({i \in instance : TypeAt(i) = rule.record_name})

IssuesOf(kind, label) ==
    {k \in DOMAIN structure_issues[1] :
        /\ structure_issues[1][k].message[1] = kind
        /\ Len(structure_issues[1][k].message) > 1
        /\ structure_issues[1][k].message[2] = label}

\* C11: once a stream with at least one invoice block has been validated, every
\* configured rule, whatever its label, has one "minimum" issue per scope instance
\* holding fewer than min_occurs records of its record_name, one "maximum" issue
\* per scope instance holding more than max_occurs, and no other occurrence issue.
C11_EveryRuleCounted ==
    (structure_issues # None /\ EntPositions # {}) =>
        \A r \in DOMAIN parser[1].structure_rules :
            LET rule == parser[1].structure_rules[r]
                under == {inst \in ScopeInstances(rule.scope) :
                            Matching(inst, rule) < rule.min_occurs}
                over == {inst \in ScopeInstances(rule.scope) :
                            /\ rule.max_occurs # None
                            /\ Matching(inst, rule) > rule.max_occurs[1]}
            IN  /\ Cardinality(IssuesOf("minimum", rule.label)) = Cardinality(under)
                /\ Cardinality(IssuesOf("maximum", rule.label)) = Cardinality(over)

\* The section order index the walk gives the record at position i of block e
\* (a REF is a header reference before the block's first LIG, a line reference
\* after it).
OrderAt(e, i) ==
    IF TypeAt(i) = "ENT" THEN order_by_label("ENT")
    ELSE IF TypeAt(i) = "REF"
    THEN IF \E l \in LigPositions(e) : l < i
         THEN order_by_label("REF(L)") ELSE order_by_label("REF(E)")
    ELSE order_by_label(TypeAt(i))

\* Records of block e that take part in the ordering (FIC records are not part
\* of any block).
Ordered(e) == {i \in BlockAt(e) : TypeAt(i) # "FIC"}

\* Where the ordering context of position i was last reset: the latest LIG of
\* the block before i, or the block's ENT.
ResetBefore(e, i) ==
    CHOOSE r \in {e} \cup {l \in LigPositions(e) : l < i} :
        \A q \in {e} \cup {l \in LigPositions(e) : l < i} : q <= r

\* The highest order index seen from that reset up to, not including, i.
HighestSince(e, i) ==
    LET seen == {OrderAt(e, j) : j \in {q \in Ordered(e) : ResetBefore(e, i) <= q /\ q < i}}
    IN  CHOOSE m \in seen : \A o \in seen : o <= m

IssuesAt(i, kind) ==
    {k \in DOMAIN structure_issues[1] :
        /\ structure_issues[1][k].line_number = LineOf(i)
        /\ structure_issues[1][k].message[1] = kind}

NonLigOrdering ==
    \A e \in EntPositions : \A i \in Ordered(e) \ {e} :
        TypeAt(i) # "LIG" =>
            /\ Cardinality(IssuesAt(i, "out-of-sequence")) =
                  IF OrderAt(e, i) < HighestSince(e, i) THEN 1 ELSE 0
            /\ IssuesAt(i, "around-LIG") = {}

\* C12 as stated: in a validated stream a non-LIG record of a block has an
\* order-violation issue exactly when its order index is below the highest one
\* seen since the last reset, and no LIG record ever has an order-violation issue.
C12_LigNeverOutOfOrder ==
    structure_issues # None =>
        /\ NonLigOrdering
        /\ \A e \in EntPositions : \A i \in LigPositions(e) :
              IssuesAt(i, "out-of-sequence") \cup IssuesAt(i, "around-LIG") = {}

\* C12 as the code has it: the same for non-LIG records; a LIG record resets the
\* ordering context and has an order-violation issue itself exactly when an order
\* index above LEC's (a PIE) was seen since the previous reset.
C12_OrderingWithinBlock ==
    structure_issues # None =>
        /\ NonLigOrdering
        /\ \A e \in EntPositions : \A i \in LigPositions(e) :
              /\ IssuesAt(i, "out-of-sequence") = {}
              /\ Cardinality(IssuesAt(i, "around-LIG")) =
                    IF HighestSince(e, i) > order_by_label("LEC") THEN 1 ELSE 0

\* A validated block with a LIG flagged after a PIE and a later record flagged
\* for falling below the order reached since that LIG.
C12_Witness ==
    /\ structure_issues # None
    /\ \E e \in EntPositions : \E l \in LigPositions(e) : \E i \in Ordered(e) :
          /\ i > l /\ TypeAt(i) # "LIG"
          /\ IssuesAt(l, "around-LIG") # {}
          /\ IssuesAt(i, "out-of-sequence") # {}

OrderIssuesAt(i) == IssuesAt(i, "out-of-sequence") \cup IssuesAt(i, "around-LIG")

FindFrom(s, c, from) ==
    LET hits == {i \in DOMAIN s : i > from /\ s[i] = c}
    IN  IF hits = {} THEN 0 - 1 ELSE (CHOOSE i \in hits : \A j \in hits : i <= j) - 1

\* str.rstrip(".")
RstripDot(s) ==
    LET keep == {i \in DOMAIN s : s[i] # "."}
    IN  IF keep = {} THEN <<>>
        ELSE SubSeq(s, 1, CHOOSE i \in keep : \A j \in keep : j <= i)

\* str.isdigit()
isdigit(s) == s # <<>> /\ AllDigits(s)

Repeat(token, n) == [k \in 1..n |-> token]

\* The while loop of _expand_picture from `index` (0-based) on.
RECURSIVE ExpandFrom(_, _, _)
ExpandFrom(compact, index, tokens) ==
    IF index >= Len(compact) THEN tokens
    ELSE The({
        IF token \in {"'", "\""} THEN ExpandFrom(compact, index + 1, tokens)
        ELSE IF /\ index + 1 < Len(compact)
                /\ compact[index + 2] = "("
                /\ close # 0 - 1
                /\ isdigit(Slice(compact, index + 2, close))
             THEN ExpandFrom(compact, close + 1,
                             tokens \o Repeat(token, IntOfDigits(Slice(compact, index + 2, close))))
             ELSE ExpandFrom(compact, index + 1, Append(tokens, token)) :
        token \in {Upper(compact[index + 1])},
        close \in {FindFrom(compact, ")", index + 2)}})

_expand_picture(pattern) ==
    The({ExpandFrom(compact, 0, <<>>) : compact \in {RstripDot(SelectSeqNot(pattern, " "))}})

_ParsedType(length, field_type, decimals) ==
    [length |-> length, field_type |-> field_type, decimals |-> decimals]

\* Line 129: max(1, (numeric_positions + 1) // 2)
PackedLength(numeric_positions) == Max(1, (numeric_positions + 1) \div 2)

\* Mutant: the boundaries sit one digit lower.
BinaryLengthOffByOne(numeric_positions) ==
    IF numeric_positions < 4 THEN 2
    ELSE IF numeric_positions < 9 THEN 4
    ELSE 8

\* Lines 130-136.
BinaryLength(numeric_positions) ==
    IF numeric_positions <= 4 THEN 2
    ELSE IF numeric_positions <= 9 THEN 4
    ELSE 8

\* Lines 126-140: the physical length once the usage is known.
UsageLength(usage, numeric_positions, physical_length) ==
    LET normalized_usage == IF usage = None THEN "" ELSE usage[1]
    IN  IF numeric_positions > 0
        THEN CASE normalized_usage = "COMP-3" -> PackedLength(numeric_positions)
               [] normalized_usage \in {"COMP", "COMP-4", "BINARY"} ->
                     BinaryLength(numeric_positions)
               [] normalized_usage = "COMP-1" -> 4
               [] normalized_usage = "COMP-2" -> 8
               [] OTHER -> physical_length
        ELSE physical_length

\* Lines 105-124 and 142-152, on the expanded tokens.
TypeOfTokens(tokens, usage) ==
    LET digits == {i \in DOMAIN tokens : tokens[i] \in {"9", "Z"}}
        numeric_positions == Cardinality(digits)
        decimal_positions ==
            Cardinality({i \in digits : \E j \in 1..(i - 1) : tokens[j] = "V"})
        counted == Cardinality({i \in DOMAIN tokens : tokens[i] \notin {"V", "S", "P"}})
        has_alpha == \E i \in DOMAIN tokens : tokens[i] \in {"X", "A"}
        physical_length == UsageLength(usage, numeric_positions, counted)
    IN  IF has_alpha \/ numeric_positions = 0
        THEN _ParsedType(Max(1, physical_length), "string", None)
        ELSE IF decimal_positions > 0
        THEN _ParsedType(Max(1, physical_length), "decimal", Some(decimal_positions))
        ELSE _ParsedType(Max(1, physical_length), "integer", None)

\* _parse_picture(pic, usage): Optional _ParsedType.
_parse_picture(pic, usage) ==
    The({IF tokens = <<>> THEN None ELSE Some(TypeOfTokens(tokens, usage)) :
         tokens \in {_expand_picture(pic)}})

\* What _parse_pic_pattern and _parse_decl_type hand back: a value, or the
\* exception that leaves them.
Returned(v) == [raises |-> "", returns |-> v]
Raising(exc) == [raises |-> exc, returns |-> <<>>]

\* The while loop of _parse_pic_pattern from `index` (0-based) on: the expanded
\* tokens, or the ValueError of int().
RECURSIVE PliExpandFrom(_, _, _)
PliExpandFrom(source, index, expanded) ==
    IF index >= Len(source) THEN Returned(expanded)
    ELSE IF source[index + 1] = "("
    THEN The({
           IF close = 0 - 1 \/ close + 1 >= Len(source) THEN Returned(expanded)
           ELSE IF PyInt(Slice(source, index + 1, close)).kind = "raise"
           THEN Raising("ValueError")
           ELSE PliExpandFrom(source, close + 2,
                    expanded \o Repeat(source[close + 2],
                                       PyInt(Slice(source, index + 1, close)).num)) :
           close \in {FindFrom(source, ")", index)}})
    ELSE PliExpandFrom(source, index + 1, Append(expanded, source[index + 1]))

\* _parse_pic_pattern(pattern): (physical_length, decimal_digits).
_parse_pic_pattern(pattern) ==
    The({IF walked.raises # "" THEN walked
         ELSE LET expanded == [i \in DOMAIN walked.returns |-> Upper(walked.returns[i])]
                  counted == {i \in DOMAIN expanded :
                                expanded[i] \in {"9", "Z", "A", "X", "B", ".", ",", "-", "+", "/"}}
                  decimal == {i \in counted :
                                /\ expanded[i] \in {"9", "Z"}
                                /\ \E j \in 1..(i - 1) : expanded[j] = "V"}
              IN  Returned(<<Cardinality(counted), Cardinality(decimal)>>) :
         walked \in {PliExpandFrom(SelectSeqNot(pattern, " "), 0, <<>>)}})

\* What the three regular expressions of _parse_decl_type found in a remainder.
Remainder(char, pic, dec) == [char |-> char, pic |-> pic, dec |-> dec]

\* _parse_decl_type(remainder): Optional _ParsedType, or the exception.
_parse_decl_type(remainder) ==
    IF remainder.char # None
    THEN Returned(Some(_ParsedType(remainder.char[1], "string", None)))
    ELSE IF remainder.pic # None
    THEN The({IF found.raises # "" THEN found
              ELSE Returned(Some(_ParsedType(
                       found.returns[1],
                       IF found.returns[2] > 0 THEN "decimal" ELSE "integer",
                       IF found.returns[2] = 0 THEN None ELSE Some(found.returns[2])))) :
              found \in {_parse_pic_pattern(remainder.pic[1])}})
    ELSE IF remainder.dec # None
    THEN Returned(Some(_ParsedType(
             remainder.dec[1][1],
             IF remainder.dec[1][2] > 0 THEN "decimal" ELSE "integer",
             IF remainder.dec[1][2] = 0 THEN None ELSE Some(remainder.dec[1][2]))))
    ELSE Returned(None)

(***************************************************************************)
(* SpecPicture: the picture evaluators of both dialects, applied to        *)
(* pictures written as a COBOL or PL/I source would write them.            *)
(***************************************************************************)
\* A picture is a list of items: a symbol, written alone (repeat 0) or with a
\* repeat count.
PicRepeats == {0, 4, 10}
PicItem(symbol, repeat) == [symbol |-> symbol, repeat |-> repeat]
PicItems ==
    {PicItem("9", repeat) : repeat \in PicRepeats}
    \cup {PicItem("X", 0), PicItem("X", 4), PicItem("a", 0), PicItem("V", 0), PicItem("S", 0)}
Pictures(longest) == UNION {[1..n -> PicItems] : n \in 1..longest}

\* COBOL writes 9(5), PL/I writes (5)9.
RECURSIVE CobolPictureFrom(_, _)
CobolPictureFrom(items, k) ==
    IF k > Len(items) THEN <<".">>
    ELSE <<items[k].symbol>>
         \o (IF items[k].repeat = 0 THEN <<>> ELSE <<"(">> \o str(items[k].repeat) \o <<")">>)
         \o CobolPictureFrom(items, k + 1)

CobolPicture(items) == CobolPictureFrom(items, 1)

RECURSIVE PliPictureFrom(_, _)
PliPictureFrom(items, k) ==
    IF k > Len(items) THEN <<>>
    ELSE (IF items[k].repeat = 0 THEN <<>> ELSE <<"(">> \o str(items[k].repeat) \o <<")">>)
         \o <<items[k].symbol>>
         \o PliPictureFrom(items, k + 1)

PliPicture(items) == PliPictureFrom(items, 1)

\* node.usage as _build_tree stores it: None, or the upper-cased match of _USAGE_RE.
Usages == {None, Some("COMP-3"), Some("COMP"), Some("COMP-4"), Some("BINARY"), Some("COMP-2")}

\* Pictures no item list writes: a repeat count that is not a number.
MalformedPictures == {<<"(", "X", ")", "9">>, <<"(", ")", "9">>, <<"9", "(", "2">>}

\* The remainders of PL/I declaration lines that carry no well-formed picture.
OtherRemainders ==
    {Remainder(None, Some(pic), None) : pic \in MalformedPictures}
    \cup {Remainder(Some(n), None, None) : n \in 1..MaxPicItems}
    \cup {Remainder(None, None, Some(<<p, s>>)) : p \in 1..MaxPicItems, s \in 0..1}
    \cup {Remainder(None, None, None)}

\* The calls made: _parse_picture(node.pic, node.usage) for a COBOL node,
\* _parse_decl_type(remainder) for a PL/I declaration line.  `items` records
\* the picture that was written.
CobolCall(items, usage) ==
    [dialect |-> "cobol", items |-> items, usage |-> usage, remainder |-> None]
PliCall(items, remainder) ==
    [dialect |-> "pli", items |-> items, usage |-> None, remainder |-> Some(remainder)]
PictureCalls(longest) ==
    {CobolCall(items, usage) : items \in Pictures(longest), usage \in Usages}
    \cup {PliCall(items, Remainder(None, Some(PliPicture(items)), None)) :
             items \in Pictures(longest)}
    \cup {PliCall(<<>>, remainder) : remainder \in OtherRemainders}

InitPicture ==
    /\ built = <<>> /\ contract = None /\ parser = None
    /\ \E call \in PictureCalls(MaxPicItems) : args = Some(call)
    /\ raised = None
    /\ idle

\* cobol_layout_parser._emit_fields, line 238: parsed = _parse_picture(node.pic, node.usage)
ParseCobolPicture ==
    /\ output = None /\ raised = None
    /\ args[1].dialect = "cobol"
    /\ output' = Some(_parse_picture(CobolPicture(args[1].items), args[1].usage))
    /\ UNCHANGED <<flattenVars, cacheVars, jobVars, constructionVars, raised, line, coerceVars, layoutVars, fileVars>>

\* pli_layout_parser._build_record_specs_from_text, line 310:
\* parsed_type = _parse_decl_type(remainder)
ParsePliDeclaration ==
    /\ output = None /\ raised = None
    /\ args[1].dialect = "pli"
    /\ \E found \in {_parse_decl_type(args[1].remainder[1])} :
         /\ output' = IF found.raises = "" THEN Some(found.returns) ELSE None
         /\ raised' = IF found.raises = "" THEN None ELSE Some(found.raises)
    /\ UNCHANGED <<flattenVars, cacheVars, jobVars, constructionVars, line, coerceVars, layoutVars, fileVars>>

NextPicture == ParseCobolPicture \/ ParsePliDeclaration

SpecPicture == InitPicture /\ [][NextPicture]_vars

\* What the picture last evaluated was, read off its items.
Evaluated == args # None /\ args[1].items # <<>> /\ (output # None \/ raised # None)
Repeated(item) == IF item.repeat = 0 THEN 1 ELSE item.repeat
RECURSIVE DigitPositionsFrom(_, _)
DigitPositionsFrom(items, k) ==
    IF k > Len(items) THEN 0
    ELSE (IF items[k].symbol = "9" THEN Repeated(items[k]) ELSE 0)
         + DigitPositionsFrom(items, k + 1)
SignificantDigits == DigitPositionsFrom(args[1].items, 1)
ContainsAlpha == \E k \in DOMAIN args[1].items : args[1].items[k].symbol \in {"X", "a"}
NumericPicture == Evaluated /\ SignificantDigits >= 1 /\ ~ContainsAlpha
Typed == output # None /\ output[1] # None
ParsedType == output[1][1]
EvaluatedWith(usages) ==
    NumericPicture /\ args[1].dialect = "cobol" /\ args[1].usage \in usages

\* C14: a numeric picture with n >= 1 digit positions and packed (COMP-3)
\* usage is given physical length ceil((n + 1) / 2), for even n as for odd n.
C14_PackedLengthRoundsUp ==
    EvaluatedWith({Some("COMP-3")}) =>
        /\ Typed
        /\ ParsedType.length = (SignificantDigits + 2) \div 2

\* C15: a numeric picture with n >= 1 digit positions and binary usage (COMP,
\* COMP-4, BINARY) is given physical length 2 when n <= 4, 4 when 5 <= n <= 9
\* and 8 when n >= 10, whatever S or V markers it carries.
C15_BinaryLength ==
    EvaluatedWith({Some("COMP"), Some("COMP-4"), Some("BINARY")}) =>
        /\ Typed
        /\ SignificantDigits <= 4 => ParsedType.length = 2
        /\ (5 <= SignificantDigits /\ SignificantDigits <= 9) => ParsedType.length = 4
        /\ SignificantDigits >= 10 => ParsedType.length = 8

C15_Witness ==
    /\ EvaluatedWith({Some("COMP-4")})
    /\ SignificantDigits >= 10
    /\ \E k \in DOMAIN args[1].items : args[1].items[k].symbol = "V"
    /\ args[1].items[1].symbol = "S"
    /\ ParsedType.length = 8

\* C16: in both dialects a picture containing X or A is typed string with no
\* decimals, however many digit positions it has; integer and decimal are
\* returned only for pictures without such a symbol.
C16_AlphaForcesString ==
    (Evaluated /\ ContainsAlpha) =>
        /\ Typed
        /\ ParsedType.field_type = "string"
        /\ ParsedType.decimals = None

(***************************************************************************)
(* SpecTree: cobol_layout_parser._build_tree, one source line per step.    *)
(***************************************************************************)
\* A source line: the indicator of column 7 and the text _LEVEL_RE finds as
\* the level number (empty when the line does not match).
SourceLine(indicator, level) == [indicator |-> indicator, level |-> level]
LevelTexts ==
    {<<"0", "0">>, <<"0", "1">>, <<"0", "5">>, <<"1", "0">>, <<"1", "5">>, <<"8", "8">>}
CobolLines ==
    {SourceLine(" ", level) : level \in LevelTexts}
    \cup {SourceLine("*", <<"0", "1">>), SourceLine(" ", <<>>)}
CobolSources(longest) == UNION {[1..n -> CobolLines] : n \in 0..longest}

\* _normalize_cobol_line, lines 53-57: a comment line normalises to "".
_normalize_cobol_line(raw_line) ==
    IF raw_line.indicator \in {"*", "/"} THEN None ELSE Some(raw_line)

\* _CobolNode, with the node whose children list holds it (0 is ROOT).
_CobolNode(level, parent) == [level |-> level, parent |-> parent]
ROOT == 0
LevelOf(created, n) == IF n = ROOT THEN 0 ELSE created[n].level

\* Lines 186-187: while stack and level <= stack[-1].level: stack.pop()
RECURSIVE PopNotBelow(_, _, _)
PopNotBelow(created, open, level) ==
    IF open # <<>> /\ level <= LevelOf(created, open[Len(open)])
    THEN PopNotBelow(created, SubSeq(open, 1, Len(open) - 1), level)
    ELSE open

InitTree ==
    /\ built = <<>> /\ args = None /\ contract = None /\ parser = None
    /\ raised = None
    /\ line = None /\ output = None
    /\ raw_value = None /\ field = None /\ value = None
    /\ handle = <<>> /\ continue_on_error = FALSE /\ line_number = 0
    /\ records = <<>> /\ issues = <<>> /\ structure_issues = None
    /\ error = None /\ result = None
    /\ source_lines \in CobolSources(MaxSourceLines)
    /\ stack = <<ROOT>> /\ nodes = <<>>
    /\ current_structure = None /\ current_fields = <<>>
    /\ current_group_fields = <<>> /\ current_position = 0
    /\ templates_by_structure = <<>> /\ records_by_name = <<>>
    /\ flattenIdle /\ backendIdle

treeFrame == <<built, contract, parser, lineVars, coerceVars, handle,
               continue_on_error, line_number, records, issues, structure_issues,
               current_structure, current_fields, current_group_fields,
               current_position, templates_by_structure, records_by_name>>

\* Lines 160-170: the line is blank, a comment, matches no level, or is 66/77/88.
SkipSourceLine ==
    /\ source_lines # <<>> /\ raised = None
    /\ \E normalized \in {_normalize_cobol_line(source_lines[1])} :
         \/ normalized = None
         \/ normalized # None /\ normalized[1].level = <<>>
         \/ /\ normalized # None /\ normalized[1].level # <<>>
            /\ PyInt(normalized[1].level).num \in {66, 77, 88}
    /\ source_lines' = Tail(source_lines)
    /\ args' = None
    /\ UNCHANGED <<flattenVars, cacheVars, jobVars, treeFrame, raised, stack, nodes, error, result>>

\* Lines 160-189: a node is made for the line, attached and pushed.
AttachNode ==
    /\ source_lines # <<>> /\ raised = None
    /\ _normalize_cobol_line(source_lines[1]) # None
    /\ source_lines[1].level # <<>>
    /\ \E level \in {PyInt(source_lines[1].level).num} :
         /\ level \notin {66, 77, 88}
         /\ args' = Some([level |-> level])
         /\ \E open \in {PopNotBelow(nodes, stack, level)} :
              IF open = <<>>
              THEN /\ raised' = Some("IndexError")
                   /\ stack' = open
                   /\ UNCHANGED nodes
              ELSE /\ nodes' = Append(nodes, _CobolNode(level, open[Len(open)]))
                   /\ stack' = Append(open, Len(nodes) + 1)
                   /\ UNCHANGED raised
    /\ source_lines' = Tail(source_lines)
    /\ UNCHANGED <<flattenVars, cacheVars, jobVars, treeFrame, error, result>>

\* Line 191: return [node for node in root.children if node.level == 1]
ReturnForest ==
    /\ source_lines = <<>> /\ raised = None /\ result = None
    /\ result' = Some({n \in DOMAIN nodes : nodes[n].parent = ROOT /\ nodes[n].level = 1})
    /\ UNCHANGED <<flattenVars, cacheVars, jobVars, treeFrame, args, raised, source_lines, stack, nodes, error>>

NextTree == SkipSourceLine \/ AttachNode \/ ReturnForest

SpecTree == InitTree /\ [][NextTree]_vars

\* C17: the tree builder never aborts on a bad line (level number 0, unknown
\* levels, malformed pictures): it skips what it cannot use, and the parent
\* stack is never empty when a node is attached.
C17_BuilderNeverAborts == raised = None /\ stack # <<>>

\* What the nodes created so far say, without the stack: node m is still open
\* when node n arrives if no node made after m has a level at or below m's.
OpenAt(m, n) == \A k \in (m + 1)..(n - 1) : nodes[k].level > LevelOf(nodes, m)
NearestOpenBelow(n) ==
    CHOOSE m \in 0..(n - 1) :
        /\ OpenAt(m, n) /\ LevelOf(nodes, m) < nodes[n].level
        /\ \A k \in (m + 1)..(n - 1) :
             ~(OpenAt(k, n) /\ nodes[k].level < nodes[n].level)

\* C20: each new node becomes a child of the nearest preceding node that is
\* still open and has a strictly lower level; the levels on the parent stack
\* are strictly increasing, and every child's level is above its parent's.
C20_AttachedBelowNearestOpen ==
    /\ args # None =>
         /\ nodes # <<>>
         /\ nodes[Len(nodes)].level = args[1].level
         /\ stack # <<>> /\ stack[Len(stack)] = Len(nodes)
    /\ \A n \in DOMAIN nodes :
         /\ \E m \in 0..(n - 1) : OpenAt(m, n) /\ LevelOf(nodes, m) < nodes[n].level
         /\ nodes[n].parent = NearestOpenBelow(n)
         /\ nodes[n].level > LevelOf(nodes, nodes[n].parent)
    /\ \A i \in 1..(Len(stack) - 1) :
         LevelOf(nodes, stack[i]) < LevelOf(nodes, stack[i + 1])

(***************************************************************************)
(* SpecDeclare: pli_layout_parser._build_record_specs_from_text, one       *)
(* source line per step.                                                   *)
(***************************************************************************)
DEMAT_ == <<"D", "E", "M", "A", "T", "_">>
STO_D_ == <<"S", "T", "O", "_", "D", "_">>
DEMAT_GEN == DEMAT_ \o <<"G", "E", "N">>
STO_D_GEN == STO_D_ \o <<"G", "E", "N">>
DEMAT_A == DEMAT_ \o <<"A">>
DEMAT_B == DEMAT_ \o <<"B">>

\* str.startswith / str.removeprefix
startswith(s, prefix) == Len(s) >= Len(prefix) /\ SubSeq(s, 1, Len(prefix)) = prefix
removeprefix(s, prefix) ==
    IF startswith(s, prefix) THEN SubSeq(s, Len(prefix) + 1, Len(s)) ELSE s

\* _structure_to_record_name(structure_name): Optional record name.
_structure_to_record_name(structure_name) ==
    IF structure_name = DEMAT_GEN \/ structure_name = STO_D_GEN THEN None
    ELSE IF startswith(structure_name, DEMAT_) THEN Some(removeprefix(structure_name, DEMAT_))
    ELSE IF startswith(structure_name, STO_D_) THEN Some(removeprefix(structure_name, STO_D_))
    ELSE None

\* include_structure(name) under the default prefixes ("DEMAT_", "STO_D_").
include_structure(name) == startswith(name, DEMAT_) \/ startswith(name, STO_D_)

\* resolve_record_name(structure_name) with preserve_structure_names False.
resolve_record_name(structure_name) ==
    The({IF mapped # None /\ mapped[1] # <<>> THEN mapped ELSE None :
         mapped \in {_structure_to_record_name(structure_name)}})

\* dict.get(key, default), d[key] = v and d.setdefault(key, []).append(v)
DictGet(d, key, default) == IF key \in DOMAIN d THEN d[key] ELSE default
DictSet(d, key, v) == [k \in DOMAIN d \cup {key} |-> IF k = key THEN v ELSE d[k]]
DictExtend(d, key, vs) == DictSet(d, key, DictGet(d, key, <<>>) \o vs)

\* Field names are the joined parts, kept as the list of parts.
Rebased(fields, shift) ==
    [i \in DOMAIN fields |->
        TypedField(fields[i].name, fields[i].start + shift, fields[i].length,
                   fields[i].type, fields[i].decimals)]

\* Mutant: the first clone lands on the cursor instead of after it.
_clone_template_fields_on_cursor(template_fields, start_position) ==
    IF template_fields = <<>> THEN <<<<>>, 0>>
    ELSE The({<<Rebased(ordered, start_position - ordered[1].start),
                MaxOf([i \in DOMAIN ordered |->
                         ordered[i].start - ordered[1].start + 1 + ordered[i].length - 1])>> :
              ordered \in {SortedByStart(template_fields)}})

\* _clone_template_fields(template_fields, start_position): (cloned, consumed)
_clone_template_fields(template_fields, start_position) ==
    IF template_fields = <<>> THEN <<<<>>, 0>>
    ELSE The({<<Rebased(ordered, start_position + 1 - ordered[1].start),
                MaxOf([i \in DOMAIN ordered |->
                         ordered[i].start - ordered[1].start + 1 + ordered[i].length - 1])>> :
              ordered \in {SortedByStart(template_fields)}})

\* _normalize_group_templates(group_fields)
_normalize_group_templates(group_fields) ==
    [group_name \in {g \in DOMAIN group_fields : group_fields[g] # <<>>} |->
        The({Rebased(ordered, 1 - ordered[1].start) :
             ordered \in {SortedByStart(group_fields[group_name])}})]

_GroupState(level, name) == [level |-> level, name |-> name]

\* Lines 307-308: while stack and stack[-1].level >= level: stack.pop()
RECURSIVE PopNotAbove(_, _)
PopNotAbove(open, level) ==
    IF open # <<>> /\ open[Len(open)].level >= level
    THEN PopNotAbove(SubSeq(open, 1, Len(open) - 1), level)
    ELSE open

\* A source line, by what the regular expressions find in it: the structure
\* name of _DCL_STRUCT_RE (or None), else level and name of _FIELD_RE (level
\* empty when the line does not match), the declared type of the remainder
\* and the (structure, group) of _LIKE_RE.
DeclarationLine(dcl, level, name, remainder, like) ==
    [dcl |-> dcl, level |-> level, name |-> name, remainder |-> remainder, like |-> like]
NoType == Remainder(None, None, None)
PliLines ==
    {DeclarationLine(Some(DEMAT_A), <<>>, "", NoType, None),
     DeclarationLine(Some(DEMAT_B), <<>>, "", NoType, None),
     DeclarationLine(None, <<"1", "0">>, "G", NoType, None),
     DeclarationLine(None, <<"1", "5">>, "F", Remainder(Some(2), None, None), None),
     DeclarationLine(None, <<"1", "0">>, "H", NoType, Some(<<DEMAT_A, "G">>)),
     DeclarationLine(None, <<"1", "5">>, "P", Remainder(None, Some(<<"(", "X", ")", "9">>), None), None),
     DeclarationLine(None, <<>>, "", NoType, None)}
PliSources(longest) == UNION {[1..n -> PliLines] : n \in 0..longest}

InitDeclare ==
    /\ built = <<>> /\ contract = None /\ parser = None
    /\ raised = None
    /\ line = None /\ output = None
    /\ raw_value = None /\ field = None /\ value = None
    /\ handle = <<>> /\ continue_on_error = FALSE /\ line_number = 0
    /\ records = <<>> /\ issues = <<>> /\ structure_issues = None
    /\ error = None /\ result = None
    /\ \E source_text \in PliSources(MaxDeclLines) :
         args = Some(source_text) /\ source_lines = source_text
    /\ stack = <<>> /\ nodes = <<>>
    /\ current_structure = None /\ current_fields = <<>>
    /\ current_group_fields = <<>> /\ current_position = 0
    /\ templates_by_structure = <<>> /\ records_by_name = <<>>
    /\ flattenIdle /\ backendIdle

declareFrame == <<built, args, contract, parser, lineVars, coerceVars, handle,
                  continue_on_error, line_number, records, issues, structure_issues,
                  error, nodes>>

\* flush_current, line 220: the templates after the flush.
FlushedTemplates ==
    IF current_structure # None /\ current_fields # <<>>
    THEN DictSet(templates_by_structure, current_structure[1],
                 _normalize_group_templates(current_group_fields))
    ELSE templates_by_structure

\* flush_current, lines 222-231: the records after the flush, or the
\* ValueError of RecordSpec.
FlushedRecords ==
    IF /\ current_structure # None /\ current_fields # <<>>
       /\ include_structure(current_structure[1])
    THEN The({
           IF record_name = None
              \/ \E i \in DOMAIN records_by_name : records_by_name[i].name = record_name[1]
           THEN Returned(records_by_name)
           ELSE The({IF made = None THEN Raising("ValueError")
                     ELSE Returned(Append(records_by_name, made[1])) :
                     made \in {RecordSpec(record_name[1],
                                          [start |-> 1, length |-> 3,
                                           value |-> Slice(record_name[1], 0, 3)],
                                          current_fields)}}) :
           record_name \in {resolve_record_name(current_structure[1])}})
    ELSE Returned(records_by_name)

\* Lines 243-265: a DCL line flushes the open structure and opens the next;
\* its inline type, if any, becomes the field VALUE.
OpenStructure ==
    /\ source_lines # <<>> /\ raised = None /\ result = None
    /\ source_lines[1].dcl # None
    /\ source_lines' = Tail(source_lines)
    /\ \E flushed \in {FlushedRecords} :
         IF flushed.raises # ""
         THEN /\ raised' = Some(flushed.raises)
              /\ UNCHANGED <<stack, current_structure, current_fields,
                             current_group_fields, current_position,
                             templates_by_structure, records_by_name>>
         ELSE /\ records_by_name' = flushed.returns
              /\ templates_by_structure' = FlushedTemplates
              /\ current_structure' = source_lines[1].dcl
              /\ stack' = <<>>
              /\ \E inline \in {_parse_decl_type(source_lines[1].remainder)} :
                   IF inline.raises # ""
                   THEN /\ raised' = Some(inline.raises)
                        /\ current_fields' = <<>> /\ current_group_fields' = <<>>
                        /\ current_position' = 0
                   ELSE IF inline.returns # None /\ inline.returns[1].length > 0
                   THEN \E header \in {TypedField(<<"VALUE">>, 1, inline.returns[1].length,
                                                  inline.returns[1].field_type,
                                                  inline.returns[1].decimals)} :
                          /\ current_fields' = <<header>>
                          /\ current_group_fields' = DictExtend(<<>>, "__ROOT__", <<header>>)
                          /\ current_position' = inline.returns[1].length
                          /\ UNCHANGED raised
                   ELSE /\ current_fields' = <<>> /\ current_group_fields' = <<>>
                        /\ current_position' = 0
                        /\ UNCHANGED raised
    /\ UNCHANGED <<flattenVars, cacheVars, jobVars, declareFrame, result>>

\* Lines 239-241, 268-269 and 297-299: a blank line, a line outside any
\* structure, or a line that is no field declaration.
SkipDeclarationLine ==
    /\ source_lines # <<>> /\ raised = None /\ result = None
    /\ source_lines[1].dcl = None
    /\ current_structure = None \/ source_lines[1].level = <<>>
    /\ source_lines' = Tail(source_lines)
    /\ UNCHANGED <<flattenVars, cacheVars, jobVars, declareFrame, raised, result, stack, current_structure,
                   current_fields, current_group_fields, current_position,
                   templates_by_structure, records_by_name>>

\* The group a leaf is filed under (lines 334-345): the name, whether the
\* leaf is skipped for sitting under ID.
TopLevelGroup(open) ==
    LET tens == {i \in DOMAIN open : open[i].level = 10}
    IN  IF tens # {} THEN Some(open[CHOOSE i \in tens : \A j \in tens : i <= j].name)
        ELSE IF open # <<>> THEN Some(open[1].name)
        ELSE None

\* Lines 349-360: the names of the enclosing groups, GS at level 10 left out.
ParentGroups(open) ==
    LET kept == SelectSeq(open, LAMBDA group : ~(group.level = 10 /\ group.name = "GS"))
    IN  [i \in DOMAIN kept |-> kept[i].name]

\* Lines 297-380: a field line declares a group, a LIKE copy or a leaf field.
DeclareField ==
    /\ source_lines # <<>> /\ raised = None /\ result = None
    /\ source_lines[1].dcl = None
    /\ current_structure # None /\ source_lines[1].level # <<>>
    /\ source_lines' = Tail(source_lines)
    /\ \E level \in {PyInt(source_lines[1].level).num} :
       \E name \in {source_lines[1].name} :
       \E like \in {source_lines[1].like} :
       \E open \in {PopNotAbove(stack, level)} :
       \E parsed_type \in {_parse_decl_type(source_lines[1].remainder)} :
         IF parsed_type.raises # ""
         THEN /\ raised' = Some(parsed_type.raises)
              /\ stack' = open
              /\ UNCHANGED <<current_fields, current_group_fields, current_position>>
         ELSE IF parsed_type.returns = None
         THEN \E template_fields \in
                  {IF like # None /\ name # "ID"
                   THEN DictGet(DictGet(templates_by_structure, like[1][1], <<>>),
                                like[1][2], <<>>)
                   ELSE <<>>} :
                IF template_fields # <<>>
                THEN \E cloned \in {_clone_template_fields(template_fields, current_position)} :
                       /\ current_fields' = current_fields \o cloned[1]
                       /\ current_group_fields' =
                              DictExtend(current_group_fields, name, cloned[1])
                       /\ current_position' = current_position + cloned[2]
                       /\ stack' = open
                       /\ UNCHANGED raised
                ELSE /\ stack' = Append(open, _GroupState(level, name))
                     /\ UNCHANGED <<raised, current_fields, current_group_fields,
                                    current_position>>
         ELSE \E top_level_group_name \in {TopLevelGroup(open)} :
                IF top_level_group_name = Some("ID") \/ parsed_type.returns[1].length = 0
                THEN /\ stack' = open
                     /\ UNCHANGED <<raised, current_fields, current_group_fields,
                                    current_position>>
                ELSE \E new_field \in {TypedField(Append(ParentGroups(open), name),
                                                  current_position + 1,
                                                  parsed_type.returns[1].length,
                                                  parsed_type.returns[1].field_type,
                                                  parsed_type.returns[1].decimals)} :
                       /\ current_fields' = Append(current_fields, new_field)
                       /\ current_group_fields' =
                              DictExtend(current_group_fields,
                                         IF top_level_group_name = None THEN "__ROOT__"
                                         ELSE top_level_group_name[1],
                                         <<new_field>>)
                       /\ current_position' = current_position + parsed_type.returns[1].length
                       /\ stack' = open
                       /\ UNCHANGED raised
    /\ UNCHANGED <<flattenVars, cacheVars, jobVars, declareFrame, result, current_structure, templates_by_structure,
                   records_by_name>>

\* Lines 382-383: flush_current(); return list(records_by_name.values())
ReturnRecordSpecs ==
    /\ source_lines = <<>> /\ raised = None /\ result = None
    /\ \E flushed \in {FlushedRecords} :
         IF flushed.raises # ""
         THEN /\ raised' = Some(flushed.raises)
              /\ UNCHANGED <<result, stack, current_structure, current_fields,
                             current_group_fields, current_position,
                             templates_by_structure, records_by_name>>
         ELSE /\ records_by_name' = flushed.returns
              /\ templates_by_structure' = FlushedTemplates
              /\ result' = Some(flushed.returns)
              /\ current_structure' = None /\ stack' = <<>>
              /\ current_fields' = <<>> /\ current_group_fields' = <<>>
              /\ current_position' = 0
              /\ UNCHANGED raised
    /\ UNCHANGED <<flattenVars, cacheVars, jobVars, declareFrame, source_lines>>

\* extract_contract_from_pli_source, lines 401-416: the ContractSpec made of
\* the records returned, strict left at its default True.
BuildContract ==
    /\ result # None /\ raised = None /\ contract = None
    /\ IF result[1] = <<>>
       THEN /\ raised' = Some("ValueError")
            /\ UNCHANGED contract
       ELSE \E line_length \in {MaxOf([i \in DOMAIN result[1] |->
                                         sum_of_lengths(result[1][i])])} :
            \E made \in {ContractSpec(line_length, TRUE, FALSE, <<>>, result[1])} :
              /\ contract' = made
              /\ raised' = IF made = None THEN Some("ValueError") ELSE None
    /\ UNCHANGED <<flattenVars, cacheVars, jobVars, built, args, parser, lineVars, coerceVars, layoutVars, fileVars>>

NextDeclare ==
    \/ OpenStructure
    \/ SkipDeclarationLine
    \/ DeclareField
    \/ ReturnRecordSpecs
    \/ BuildContract

SpecDeclare == InitDeclare /\ [][NextDeclare]_vars

\* Line i of the source is a LIKE declaration naming the structure that is
\* open when it is read: a self-reference.
SelfReferentialLike(source_text, i) ==
    /\ source_text[i].dcl = None /\ source_text[i].level # <<>>
    /\ source_text[i].like # None
    /\ \E j \in 1..(i - 1) :
         /\ source_text[j].dcl = Some(source_text[i].like[1][1])
         /\ \A k \in (j + 1)..(i - 1) : source_text[k].dcl = None

\* C18: a LIKE that references a template of the same, still-open structure
\* makes construction fail with a fatal error; it is never silently ignored or
\* turned into an ordinary group.
C18_SelfReferenceIsFatal ==
    (\E i \in DOMAIN args[1] : SelfReferentialLike(args[1], i)) => contract = None

(***************************************************************************)
(* SpecShare: one ContractSpec object handed to the core operations.       *)
(* `contract` is the object; a FixedWidthParser keeps a reference to it    *)
(* (self.contract = contract), so `parser` follows every assignment made   *)
(* to the object's attributes.                                             *)
(***************************************************************************)
SharedStreams ==
    UNION {[1..n -> {StreamRecord(type, 1) : type \in {"ENT", "LIG"}}] : n \in 0..MaxRow}

\* The state after ContractSpec(...): `built` keeps the attributes the
\* constructor gave the object.
InitShare ==
    /\ args = None /\ raised = None /\ parser = None
    /\ \E c \in FileContracts : contract = c /\ built = c
    /\ idle

\* FixedWidthParser(contract), lines 61-63.
ShareWithParser ==
    /\ parser = None /\ _validate_contract(contract[1])
    /\ parser' = contract
    /\ args' = Some([op |-> "FixedWidthParser"])
    /\ UNCHANGED <<flattenVars, cacheVars, jobVars, built, contract, raised, lineVars, coerceVars, layoutVars, fileVars>>

\* parser.parse_line(line, 1), lines 89-114.
ParseSharedLine ==
    /\ parser # None
    /\ \E text \in FileLines :
         /\ line' = Some(text)
         /\ output' = Some(parse_line(parser[1], text, 1))
    /\ args' = Some([op |-> "parse_line"])
    /\ UNCHANGED <<flattenVars, cacheVars, jobVars, built, contract, parser, raised, coerceVars, layoutVars, fileVars>>

\* parser._validate_structure(records), lines 156-381, as parse_file calls it.
ValidateShared ==
    /\ parser # None
    /\ \E decoded \in SharedStreams :
         /\ records' = decoded
         /\ structure_issues' = Some(_validate_structure(parser[1], decoded))
    /\ args' = Some([op |-> "_validate_structure"])
    /\ UNCHANGED <<flattenVars, cacheVars, jobVars, built, contract, parser, raised, lineVars, coerceVars, layoutVars,
                   handle, continue_on_error, line_number, issues, error, result>>

\* attach_idil_structure_rules(contract), line 194: contract.structure_rules is
\* assigned on the object given, which is also the object returned.
AttachRules ==
    /\ contract' = Some([contract[1] EXCEPT !.structure_rules = _build_default_rules])
    /\ parser' = IF parser = None THEN None ELSE contract'
    /\ args' = Some([op |-> "attach_idil_structure_rules"])
    /\ UNCHANGED <<flattenVars, cacheVars, jobVars, built, raised, lineVars, coerceVars, layoutVars, fileVars>>

NextShare == ShareWithParser \/ ParseSharedLine \/ ValidateShared \/ AttachRules

SpecShare == InitShare /\ [][NextShare]_vars

\* C19: once constructed, a ContractSpec is changed by no core operation:
\* building a FixedWidthParser, parse_line, structural validation and
\* attaching the structure rules leave every attribute as constructed.
C19_ContractNeverChanges == contract = built

(***************************************************************************)
(* cobol_layout_parser.py: _parse_occurs, _append_field, _emit_fields and  *)
(* extract_contract_from_cobol_source.                                     *)
(***************************************************************************)
MaxFlattenLines == 3

\* A source line _LEVEL_RE matches, with what the regular expressions of
\* _build_tree capture in its remainder (lines 164-183).
CobolItem(level, name, occurs, pic, redefines) ==
    [level |-> level, name |-> name, occurs |-> occurs, pic |-> pic,
     redefines |-> redefines]

OccursOnce == None
OccursOneToTwo == Some([minimum |-> <<"1">>, maximum |-> Some(<<"2">>)])
OccursZero == Some([minimum |-> <<"0">>, maximum |-> None])

\* Elementary items A (plain, repeated, redefining, repeated and redefining, and
\* repeated one level down), repeated groups G (one of them redefining), an
\* item whose name normalises to A_1, an item whose picture expands to nothing,
\* a second record.
PictureX2 == Some(<<"X", "(", "2", ")", ".">>)
Level05 == <<"0", "5">>
CobolItems ==
    {CobolItem(Level05, <<"A">>, occurs, PictureX2, redefines) :
        occurs \in {OccursOnce, OccursOneToTwo}, redefines \in BOOLEAN}
    \cup {CobolItem(<<"1", "0">>, <<"A">>, OccursOneToTwo, PictureX2, FALSE)}
    \cup {CobolItem(Level05, <<"G">>, OccursOneToTwo, None, redefines) :
            redefines \in BOOLEAN}
    \cup {CobolItem(Level05, <<"a", "-", "1">>, OccursZero, Some(<<"9", ".">>), FALSE),
          CobolItem(Level05, <<"A">>, OccursOnce, Some(<<".">>), FALSE),
          CobolItem(<<"0", "1">>, <<"S">>, OccursOnce, None, FALSE)}

FirstRecord == CobolItem(<<"0", "1">>, <<"R">>, OccursOnce, None, FALSE)

FlattenSources(longest) ==
    {<<FirstRecord>> \o rest : rest \in UNION {[1..n -> CobolItems] : n \in 0..longest}}

\* Lines 41-44.
IdentifierChars == UpperAlnum \cup {"F", "G", "I", "L", "R", "S", "_"}

\* re.sub(r"_+", "_", cleaned), from position i on.
RECURSIVE CollapseFrom(_, _)
CollapseFrom(cleaned, i) ==
    IF i > Len(cleaned) THEN <<>>
    ELSE (IF cleaned[i] = "_" /\ i > 1 /\ cleaned[i - 1] = "_" THEN <<>> ELSE <<cleaned[i]>>)
         \o CollapseFrom(cleaned, i + 1)

\* .strip("_")
RECURSIVE StripUnderscores(_)
StripUnderscores(cleaned) ==
    IF cleaned # <<>> /\ cleaned[1] = "_" THEN StripUnderscores(Tail(cleaned))
    ELSE IF cleaned # <<>> /\ cleaned[Len(cleaned)] = "_"
         THEN StripUnderscores(SubSeq(cleaned, 1, Len(cleaned) - 1))
         ELSE cleaned

_normalize_identifier(text) ==
    LET replaced == [i \in DOMAIN text |->
                        IF Upper(text[i]) \in IdentifierChars THEN Upper(text[i]) ELSE "_"]
        cleaned == StripUnderscores(CollapseFrom(replaced, 1))
    IN  IF cleaned = <<>> THEN <<"F", "I", "E", "L", "D">> ELSE cleaned

\* Lines 65-71.
_parse_occurs(occurs) ==
    IF occurs = None THEN 1
    ELSE LET minimum == IntOfDigits(occurs[1].minimum)
             maximum == IF occurs[1].maximum # None
                        THEN IntOfDigits(occurs[1].maximum[1]) ELSE minimum
         IN  Max(Max(minimum, maximum), 1)

\* Lines 172-184: the node of one source line, with the node whose children
\* list holds it.
DeclaredNode(item, parent) ==
    [level |-> IntOfDigits(item.level), name |-> _normalize_identifier(item.name),
     occurs |-> _parse_occurs(item.occurs), pic |-> item.pic, usage |-> None,
     redefines |-> item.redefines, parent |-> parent]

\* Lines 159-189 over the lines from k on.
RECURSIVE TreeFrom(_, _, _, _)
TreeFrom(source_text, k, created, open) ==
    IF k > Len(source_text) THEN created
    ELSE \* PopNotBelow leaves ROOT on the stack: every level here is above 0.
         The({TreeFrom(source_text, k + 1,
                       Append(created, DeclaredNode(source_text[k], popped[Len(popped)])),
                       Append(popped, Len(created) + 1)) :
              popped \in {PopNotBelow(created, open, IntOfDigits(source_text[k].level))}})

\* Line 191: the level-01 children of the root.
_build_tree(source_text) ==
    The({[created |-> created,
          record_nodes |-> SelectSeq([n \in DOMAIN created |-> n],
                              LAMBDA n : created[n].parent = ROOT /\ created[n].level = 1)] :
         created \in {TreeFrom(source_text, 1, <<>>, <<ROOT>>)}})

\* node.children
Children(created, n) ==
    SelectSeq([c \in DOMAIN created |-> c], LAMBDA c : created[c].parent = n)

\* What one _emit_fields call threads through: the cursor, and the two
\* collections it appends to.
Emitted(position, emitted_fields, used_names) ==
    [position |-> position, fields |-> emitted_fields, used_names |-> used_names]

\* Lines 205-209.
RECURSIVE Candidate(_, _, _, _)
Candidate(base, candidate, suffix, used_names) ==
    IF candidate \in used_names
    THEN Candidate(base, base \o <<"_">> \o str(suffix), suffix + 1, used_names)
    ELSE candidate

\* Lines 194-220.
_append_field(emitted, name, start, length, field_type, decimals) ==
    The({Emitted(emitted.position,
                 Append(emitted.fields,
                        TypedField(candidate, start, length, field_type, decimals)),
                 emitted.used_names \cup {candidate}) :
         candidate \in {The({Candidate(base, base, 2, emitted.used_names) :
                             base \in {_normalize_identifier(name)}})}})

\* Mutant: only an elementary redefinition is skipped.
SkippedWhenElementary(node) == node.redefines /\ node.pic # None

\* Line 231.
Skipped(node) == node.redefines

\* Mutant: the repetition count is ignored.
OccursIgnored(node) == 1

\* Line 235.
Occurs(node) == Max(1, node.occurs)

\* Line 234.
Qualified(prefix, name) == IF prefix # <<>> THEN prefix \o <<"_">> \o name ELSE name

\* Lines 242 and 256.
IndexSuffix(occurs, index) == IF occurs > 1 THEN <<"_">> \o str(index + 1) ELSE <<>>

\* Lines 241-253, from `index` on.
RECURSIVE LeafLoop(_, _, _, _, _)
LeafLoop(qualified_name, parsed, occurs, index, emitted) ==
    IF index >= occurs THEN emitted
    ELSE LeafLoop(qualified_name, parsed, occurs, index + 1,
                  The({[_append_field(e, qualified_name \o IndexSuffix(occurs, index),
                                      e.position, parsed.length, parsed.field_type,
                                      parsed.decimals)
                          EXCEPT !.position = e.position + parsed.length] :
                       e \in {emitted}}))

RECURSIVE _emit_fields(_, _, _, _)
RECURSIVE ChildLoop(_, _, _, _, _)
RECURSIVE GroupLoop(_, _, _, _, _, _, _)

\* Lines 258-265, from the k-th child on.
ChildLoop(created, children, k, prefix, emitted) ==
    IF k > Len(children) THEN emitted
    ELSE ChildLoop(created, children, k + 1, prefix,
                   _emit_fields(created, children[k], prefix, emitted))

\* Lines 255-266, from `index` on.
GroupLoop(created, n, qualified_name, prefix, occurs, index, emitted) ==
    IF index >= occurs THEN emitted
    ELSE GroupLoop(created, n, qualified_name, prefix, occurs, index + 1,
                   ChildLoop(created, Children(created, n), 1,
                             IF qualified_name # <<>>
                             THEN qualified_name \o IndexSuffix(occurs, index)
                             ELSE prefix,
                             emitted))

\* Lines 223-266.
_emit_fields(created, n, prefix, emitted) ==
    The({IF Skipped(created[n]) THEN e
         ELSE IF created[n].pic # None /\ created[n].pic[1] # <<>>
              THEN IF parsed = None THEN e
                   ELSE LeafLoop(Qualified(prefix, created[n].name), parsed[1],
                                 Occurs(created[n]), 0, e)
              ELSE GroupLoop(created, n, Qualified(prefix, created[n].name), prefix,
                             Occurs(created[n]), 0, e) :
         e \in {emitted},
         parsed \in {IF created[n].pic = None THEN None
                     ELSE _parse_picture(created[n].pic[1], created[n].usage)}})

\* Mutant: the strict flag is passed through whatever the number of records.
StrictAsRequested(strict, specs) == strict

\* Line 340.
strict_length_validation(strict, specs) == strict /\ Len(specs) = 1

FlattenCall(source_text, strict) == [source_text |-> source_text, strict |-> strict]

InitFlatten ==
    /\ built = <<>> /\ contract = None /\ parser = None /\ raised = None
    /\ line = None /\ output = None
    /\ raw_value = None /\ field = None /\ value = None
    /\ handle = <<>> /\ continue_on_error = FALSE /\ line_number = 0
    /\ records = <<>> /\ issues = <<>> /\ structure_issues = None
    /\ error = None /\ result = None
    /\ \E source_text \in FlattenSources(MaxFlattenLines), strict \in BOOLEAN :
         args = Some(FlattenCall(source_text, strict)) /\ source_lines = source_text
    /\ stack = <<>> /\ nodes = <<>>
    /\ current_structure = None /\ current_fields = <<>>
    /\ current_group_fields = <<>> /\ current_position = 0
    /\ templates_by_structure = <<>> /\ records_by_name = <<>>
    /\ flattenIdle /\ backendIdle

flattenFrame == <<built, args, parser, lineVars, coerceVars, fileVars, stack,
                  current_structure, current_fields, current_group_fields,
                  current_position, templates_by_structure, records_by_name,
                  cacheVars, jobVars>>

\* Line 303: record_nodes = _build_tree(text)
BuildTree ==
    /\ record_nodes = None
    /\ \E tree \in {_build_tree(source_lines)} :
         /\ nodes' = tree.created
         /\ record_nodes' = Some(tree.record_nodes)
    /\ source_lines' = <<>>
    /\ UNCHANGED <<flattenFrame, contract, raised, selected_specs, flattened>>

\* Lines 308-334, one pass of the loop.  No filter is given, so
\* _should_include_record keeps every record.
FlattenRecord ==
    /\ record_nodes # None /\ record_nodes[1] # <<>> /\ raised = None
    /\ \E node \in {record_nodes[1][1]} :
       \E emitted \in {_emit_fields(nodes, node, <<>>, Emitted(1, <<>>, {}))} :
         /\ flattened' = Some([node |-> node, end_position |-> emitted.position,
                               fields |-> emitted.fields])
         /\ IF emitted.fields = <<>>
            THEN UNCHANGED <<selected_specs, raised>>
            ELSE \E spec \in {RecordSpec(nodes[node].name,
                                         [start |-> 1, length |-> 1,
                                          value |-> <<nodes[node].name[1]>>],
                                         emitted.fields)} :
                   IF spec = None
                   THEN raised' = Some("ValueError") /\ UNCHANGED selected_specs
                   ELSE selected_specs' = Append(selected_specs, spec[1])
                        /\ UNCHANGED raised
    /\ record_nodes' = Some(Tail(record_nodes[1]))
    /\ UNCHANGED <<flattenFrame, contract, source_lines, nodes>>

\* Lines 336-347.
ReturnContract ==
    /\ record_nodes = Some(<<>>) /\ raised = None /\ contract = None
    /\ IF selected_specs = <<>>
       THEN raised' = Some("ValueError") /\ UNCHANGED contract
       ELSE \E line_length \in {MaxOf([i \in DOMAIN selected_specs |->
                                          max_end(selected_specs[i])])} :
            \E made \in {ContractSpec(line_length,
                                      strict_length_validation(args[1].strict,
                                                               selected_specs),
                                      FALSE, <<>>, selected_specs)} :
              /\ contract' = made
              /\ raised' = IF made = None THEN Some("ValueError") ELSE None
    /\ UNCHANGED <<flattenFrame, source_lines, nodes, flattenVars>>

NextFlatten ==
    \/ BuildTree
    \/ FlattenRecord
    \/ ReturnContract

SpecFlatten == InitFlatten /\ [][NextFlatten]_vars

\* The cursors _emit_fields is tried with outside a record's own flattening.
Cursors == {1, MaxPos}

\* The tree as it would be had no redefinition been declared: a redefining
\* node is in no children list.
DETACHED == 0 - 1
WithoutRedefinitions(created) ==
    [n \in DOMAIN created |->
        IF created[n].redefines
        THEN [created[n] EXCEPT !.parent = DETACHED, !.redefines = FALSE]
        ELSE created[n]]

\* C21: _emit_fields on a REDEFINES node (leaf or group, any OCCURS count, any
\* children) hands back the cursor and the fields it was given, and the fields
\* flattened for a record, with their offsets and the returned cursor, are
\* those of the same tree without its redefining nodes and their subtrees.
C21_RedefinitionChangesNothing ==
    /\ \A n \in DOMAIN nodes : \A position \in Cursors :
         nodes[n].redefines =>
            _emit_fields(nodes, n, <<"R">>, Emitted(position, <<>>, {}))
                = Emitted(position, <<>>, {})
    /\ flattened # None =>
         \E absent \in {_emit_fields(WithoutRedefinitions(nodes), flattened[1].node, <<>>,
                                     Emitted(1, <<>>, {}))} :
            /\ flattened[1].fields = absent.fields
            /\ flattened[1].end_position = absent.position

\* A record is flattened that holds a repeated redefining group with a child,
\* and an item declared after it that yields a field.
C21_Witness ==
    /\ flattened # None
    /\ \E n, m \in DOMAIN nodes :
         /\ nodes[n].redefines /\ nodes[n].pic = None /\ nodes[n].occurs > 1
         /\ Children(nodes, n) # <<>>
         /\ nodes[n].parent = flattened[1].node
         /\ m > n /\ nodes[m].parent = flattened[1].node /\ ~nodes[m].redefines
         /\ flattened[1].fields # <<>>

\* The picture of an elementary node, as _emit_fields parses it.
ParsedPicture(node) ==
    IF node.pic = None THEN None ELSE _parse_picture(node.pic[1], node.usage)

\* emitted_fields[k].start for every k, moved by `shift`.
StartsShifted(emitted_fields, from, count, shift) ==
    [k \in 1..count |-> emitted_fields[from + k].start + shift]

\* C22: from cursor p, an elementary node of picture length L repeated n > 1
\* times yields exactly n fields, suffixed _1 .. _n, at p, p+L, ..., p+(n-1)L and
\* the cursor p+nL (n = 1: one unsuffixed field and the cursor p+L); a group
\* repeated n times yields its children n times in sequence, the cursor moving
\* by n times the size of one pass.
C22_RepetitionExpansion ==
    \A n \in DOMAIN nodes : \A p \in Cursors :
      ~nodes[n].redefines =>
        \E got \in {_emit_fields(nodes, n, <<>>, Emitted(p, <<>>, {}))},
           parsed \in {ParsedPicture(nodes[n])},
           count \in {nodes[n].occurs} :
          IF nodes[n].pic # None
          THEN parsed # None =>
                 /\ got.position = p + count * parsed[1].length
                 /\ got.fields =
                      [k \in 1..count |->
                          TypedField(nodes[n].name
                                       \o (IF count > 1 THEN <<"_">> \o str(k) ELSE <<>>),
                                     p + (k - 1) * parsed[1].length, parsed[1].length,
                                     parsed[1].field_type, parsed[1].decimals)]
          ELSE \E pass \in {ChildLoop(nodes, Children(nodes, n), 1, <<>>,
                                      Emitted(p, <<>>, {}))} :
                 /\ got.position = p + count * (pass.position - p)
                 /\ Len(got.fields) = count * Len(pass.fields)
                 /\ \A j \in 0..(count - 1) :
                      StartsShifted(got.fields, j * Len(pass.fields), Len(pass.fields), 0)
                        = StartsShifted(pass.fields, 0, Len(pass.fields),
                                        j * (pass.position - p))

\* A record is flattened in which a group repeated twice holds an elementary
\* item repeated twice: four fields.
C22_Witness ==
    /\ flattened # None /\ Len(flattened[1].fields) = 4
    /\ \E g, a \in DOMAIN nodes :
         /\ nodes[g].pic = None /\ nodes[g].occurs = 2 /\ ~nodes[g].redefines
         /\ nodes[g].parent = flattened[1].node
         /\ nodes[a].parent = g /\ nodes[a].pic # None /\ nodes[a].occurs = 2
         /\ ~nodes[a].redefines

\* C30: the fields flattened for a record are contiguous in emission order (the
\* first at byte 1, each next one at the previous end + 1), so that
\* sum_of_lengths = max_end = returned cursor - 1; a contract of one record
\* passes the strict length check and keeps the strict flag requested, and a
\* contract of two or more records has strict_length_validation false.
C30_FlattenedFieldsContiguous ==
    /\ flattened # None /\ flattened[1].fields # <<>> =>
         \E fs \in {flattened[1].fields} :
           /\ fs[1].start = 1
           /\ \A k \in 2..Len(fs) : fs[k].start = end(fs[k - 1]) + 1
           /\ sum_of_lengths([fields |-> fs]) = max_end([fields |-> fs])
           /\ max_end([fields |-> fs]) = flattened[1].end_position - 1
    /\ contract # None =>
         IF Len(contract[1].record_types) = 1
         THEN /\ RangesLoop(contract[1].record_types, contract[1].line_length, TRUE)
              /\ contract[1].strict_length_validation = args[1].strict
         ELSE ~contract[1].strict_length_validation

\* A contract of two records was built although strict was requested.
C30_Witness ==
    /\ contract # None /\ args[1].strict
    /\ Len(contract[1].record_types) = 2
    /\ \A i \in 1..2 : Len(contract[1].record_types[i].fields) >= 1

\* C23: the field names emitted for one record are pairwise distinct; here for
\* the PL/I flattener, over the fields of the structure being declared.
C23_EmittedNamesDistinct ==
    \A i, j \in DOMAIN current_fields :
        current_fields[i].name = current_fields[j].name => i = j

(***************************************************************************)
(* pli_layout_parser.py: LIKE reuse of a flushed group (lines 312-329),    *)
(* after a structure DEMAT_A whose group G holds two fields.               *)
(***************************************************************************)
MaxCloneLines == 4

TemplateStructure ==
    <<DeclarationLine(Some(DEMAT_A), <<>>, "", NoType, None),
      DeclarationLine(None, <<"1", "0">>, "G", NoType, None),
      DeclarationLine(None, <<"1", "5">>, "F", Remainder(Some(2), None, None), None),
      DeclarationLine(None, <<"1", "5">>, "K", Remainder(Some(1), None, None), None)>>

CloneLines ==
    {DeclarationLine(Some(DEMAT_B), <<>>, "", NoType, None),
     DeclarationLine(None, <<"1", "0">>, "G", NoType, None),
     DeclarationLine(None, <<"1", "5">>, "F", Remainder(Some(2), None, None), None),
     DeclarationLine(None, <<"1", "0">>, "H", NoType, Some(<<DEMAT_A, "G">>)),
     DeclarationLine(None, <<"0", "5">>, "L", NoType, Some(<<DEMAT_B, "G">>)),
     DeclarationLine(None, <<>>, "", NoType, None)}

CloneSources(longest) ==
    {TemplateStructure \o rest : rest \in UNION {[1..n -> CloneLines] : n \in 0..longest}}

InitClone ==
    /\ built = <<>> /\ contract = None /\ parser = None
    /\ raised = None
    /\ line = None /\ output = None
    /\ raw_value = None /\ field = None /\ value = None
    /\ handle = <<>> /\ continue_on_error = FALSE /\ line_number = 0
    /\ records = <<>> /\ issues = <<>> /\ structure_issues = None
    /\ error = None /\ result = None
    /\ \E source_text \in CloneSources(MaxCloneLines) :
         args = Some(source_text) /\ source_lines = source_text
    /\ stack = <<>> /\ nodes = <<>>
    /\ current_structure = None /\ current_fields = <<>>
    /\ current_group_fields = <<>> /\ current_position = 0
    /\ templates_by_structure = <<>> /\ records_by_name = <<>>
    /\ flattenIdle /\ backendIdle

SpecClone == InitClone /\ [][NextDeclare]_vars

\* The template a LIKE line names, in start order, as the flushed structures
\* hold it.
TemplateOf(like) ==
    SortedByStart(DictGet(DictGet(templates_by_structure, like[1][1], <<>>),
                          like[1][2], <<>>))

\* The step reads a LIKE line and appends fields: a template is reused.
TemplateReused ==
    /\ source_lines # <<>> /\ source_lines' = Tail(source_lines)
    /\ source_lines[1].like # None
    /\ Len(current_fields') > Len(current_fields)

Overlapping(f, g) == f.start <= end(g) /\ g.start <= end(f)

\* C24: when a LIKE line reuses a flushed group, the template's first field is
\* cloned to the byte right after the cursor, every clone keeps its length,
\* type and offset relative to the template's first field, the cursor moves by
\* the template's last relative end, and no two fields of the structure ever
\* overlap, the clones included.
C24_TemplateReuse ==
    [][/\ TemplateReused =>
            \E template \in {TemplateOf(source_lines[1].like)},
               cloned \in {SubSeq(current_fields', Len(current_fields) + 1,
                                  Len(current_fields'))} :
              /\ Len(cloned) = Len(template) /\ template # <<>>
              /\ cloned[1].start = current_position + 1
              /\ \A i \in DOMAIN cloned :
                   /\ cloned[i].length = template[i].length
                   /\ cloned[i].type = template[i].type
                   /\ cloned[i].decimals = template[i].decimals
                   /\ cloned[i].start - cloned[1].start
                        = template[i].start - template[1].start
              /\ current_position' = current_position
                    + MaxOf([i \in DOMAIN template |->
                               template[i].start - template[1].start + template[i].length])
              /\ current_fields' = current_fields \o cloned
       /\ \A i, j \in DOMAIN current_fields' :
            i # j => ~Overlapping(current_fields'[i], current_fields'[j])
      ]_vars

\* A template of two fields was cloned behind a field of the open structure
\* and a further field was declared after the clones.
C24_Witness ==
    /\ current_structure = Some(DEMAT_B)
    /\ DictGet(current_group_fields, "H", <<>>) # <<>>
    /\ \E i, j, k \in DOMAIN current_fields :
         /\ i < j /\ j + 1 < k
         /\ current_fields[j].name = <<"G", "F">>
         /\ current_fields[j + 1].name = <<"G", "K">>
         /\ current_fields[j].start = end(current_fields[i]) + 1

\* The records of the invoice block opened by the ENT at position e, as
\* _validate_structure collects them (a FIC joins no block), ENT first.
BlockRecords(e) ==
    SelectSeq(SubSeq(records, e, Len(records)),
              LAMBDA r : r.record_type # "FIC" /\ \E i \in BlockAt(e) : LineOf(i) = r.line_number)

StartOfWalk ==
    [header_ref_count |-> 0, line_segments |-> <<>>, current_line |-> None,
     seen_lig |-> FALSE, last_order |-> order_by_label("ENT"), issues |-> <<>>]

\* The segments checked at lines 365-379: the closed ones and the open one.
AllSegments(walked) ==
    IF walked.current_line # None
    THEN Append(walked.line_segments, walked.current_line[1])
    ELSE walked.line_segments

RefsIn(positions) == Cardinality({i \in positions : TypeAt(i) = "REF"})

\* C25: in every invoice block the REFs counted for REF(E) are those before the
\* block's first LIG and the REFs counted for a LIG segment are those between
\* that LIG and the next; each REF is walked with order index 5 in the first
\* case and 9 in the second.
C25_RefScopedByLigSeen ==
    \A e \in EntPositions :
      \E block \in {BlockRecords(e)} :
      \E walked \in {WalkBlock(Tail(block), StartOfWalk)} :
        /\ walked.header_ref_count =
              RefsIn({i \in BlockAt(e) : \A l \in LigPositions(e) : i < l})
        /\ Len(AllSegments(walked)) = Cardinality(LigPositions(e))
        /\ \A l \in LigPositions(e) :
             \E k \in DOMAIN AllSegments(walked) :
               /\ AllSegments(walked)[k].line_number = LineOf(l)
               /\ AllSegments(walked)[k].ref = RefsIn(SegmentAt(e, l))
        /\ \A k \in 2..Len(block) :
             block[k].record_type = "REF" =>
               \E before \in {WalkBlock(SubSeq(block, 2, k - 1), StartOfWalk)} :
               \E after \in {WalkStep(before, block[k])} :
               \E order \in {IF \E j \in 2..(k - 1) : block[j].record_type = "LIG"
                             THEN 9 ELSE 5} :
                 IF order < before.last_order
                 THEN /\ after.last_order = before.last_order
                      /\ Len(after.issues) = Len(before.issues) + 1
                 ELSE /\ after.last_order = order
                      /\ after.issues = before.issues

\* A block holds a REF before its first LIG and a REF after it.
C25_Witness ==
    /\ structure_issues # None
    /\ \E e \in EntPositions : \E l \in LigPositions(e) :
         /\ \E i \in BlockAt(e) : i < l /\ TypeAt(i) = "REF"
         /\ \E i \in SegmentAt(e, l) : TypeAt(i) = "REF"

\* The contract with the order_index values of its ECH and PIE rules exchanged:
\* it differs from c in order_index only.
Reindexed(c) ==
    [c EXCEPT !.structure_rules =
        [k \in DOMAIN c.structure_rules |->
            IF c.structure_rules[k].label = "ECH"
            THEN [c.structure_rules[k] EXCEPT !.order_index = 11]
            ELSE IF c.structure_rules[k].label = "PIE"
            THEN [c.structure_rules[k] EXCEPT !.order_index = 3]
            ELSE c.structure_rules[k]]]

SequenceIssuesAt(found, n) ==
    {k \in DOMAIN found : found[k].line_number = n /\ found[k].message[1] = "out-of-sequence"}

\* C26: the order enforced is the one of the rules' order_index values: of two
\* contracts that differ only in the order_index of ECH and PIE, exactly one
\* takes an ECH that directly follows a PIE in an invoice block as out of
\* sequence.
C26_OrderIndexDecides ==
    structure_issues # None =>
      \A i \in DOMAIN records :
        (/\ i + 1 \in DOMAIN records
         /\ TypeAt(i) = "PIE" /\ TypeAt(i + 1) = "ECH"
         /\ \E e \in EntPositions : e < i) =>
           (SequenceIssuesAt(_validate_structure(parser[1], records), LineOf(i + 1)) = {})
             # (SequenceIssuesAt(_validate_structure(Reindexed(parser[1]), records),
                                 LineOf(i + 1)) = {})

\* The decode issues parse_file holds: all of `issues` until the structural
\* ones are appended at line 408.
DecodeIssues ==
    IF structure_issues = None THEN issues
    ELSE SubSeq(issues, 1, Len(issues) - Len(structure_issues[1]))

\* C28: with continue_on_error set, every line read has yielded exactly one
\* record or exactly one decode issue, the records are in line order, no error
\* leaves parse_file, and the diagnostics returned are the decode issues (in
\* line order) followed by the structural ones.
C28_LineAccounting ==
    continue_on_error =>
        /\ raised = None
        /\ Len(records) + Len(DecodeIssues) = line_number
        /\ \A i, j \in DOMAIN records :
             i < j => records[i].line_number < records[j].line_number
        /\ \A i, j \in DOMAIN DecodeIssues :
             i < j => DecodeIssues[i].line_number < DecodeIssues[j].line_number
        /\ {records[i].line_number : i \in DOMAIN records}
             \cap {DecodeIssues[i].line_number : i \in DOMAIN DecodeIssues} = {}
        /\ result # None => result[1].issues = DecodeIssues \o structure_issues[1]

(***************************************************************************)
(* web_app/backend/main.py: _program_contract_cache_key and _get_contract  *)
(* called from several threads for one program and one profile, while the  *)
(* program source is touched, removed and restored.                        *)
(***************************************************************************)
MaxCallers == 2     \* threads calling _get_contract
MaxCalls == 3       \* calls made in all, each thread making its own one after the other
MaxMtime == 2       \* modification times the source takes

Threads == 1..MaxCallers

\* Line 855 and 860: the key is the profile's cache key with the modification
\* time read, or with "na" when stat() raised.
NA == <<"n", "a">>
_program_contract_cache_key(mtime) == IF mtime = None THEN NA ELSE str(mtime[1])

\* A thread outside _get_contract, with the number of calls it has made.
Idle(calls) ==
    [pc |-> "idle", key |-> None, stat |-> None, cached |-> None, calls |-> calls]

\* What a finished call left: its thread, the contract returned (None when
\* the call raised) and the modification time its stat() read (None when it
\* read none).
Outcome(t, cached, stat) == [thread |-> t, contract |-> cached, stat |-> stat]

\* _build_contract returned: the contract object (numbered in build order)
\* and the key it was built under (None without reuse).
Built(id, key) == [id |-> id, key |-> key]

InitCache ==
    /\ built = <<>> /\ contract = None /\ parser = None /\ raised = None
    /\ line = None /\ output = None
    /\ raw_value = None /\ field = None /\ value = None
    /\ handle = <<>> /\ continue_on_error = FALSE /\ line_number = 0
    /\ records = <<>> /\ issues = <<>> /\ structure_issues = None
    /\ error = None /\ result = None
    /\ layoutIdle /\ flattenIdle
    /\ args \in {Some([reuse_contract |-> reuse]) : reuse \in BOOLEAN}
    /\ _CONTRACT_CACHE = <<>> /\ _CONTRACT_LOCK = None
    /\ callers = [t \in Threads |-> Idle(0)]
    /\ st_mtime_ns = Some(1)
    /\ builds = <<>> /\ returned = {}
    /\ _JOBS = <<>> /\ tasks = <<>>

cacheFrame == <<built, args, contract, parser, raised, lineVars, coerceVars, fileVars,
                layoutVars, flattenVars, jobVars>>

\* The calls started so far.
CallsMade == SumSeq([t \in Threads |-> callers[t].calls])

\* Mutant: the lock is taken whoever holds it.
LockIgnored(holder) == TRUE

\* Line 867: `with _CONTRACT_LOCK` is entered only when no thread holds it.
LockFree(holder) == holder = None

\* Lines 864-865 and 867: the call starts; without reuse it goes straight to
\* _build_contract, with reuse it enters the lock.
Call(t) ==
    /\ callers[t].pc = "idle" /\ CallsMade < MaxCalls
    /\ IF ~args[1].reuse_contract
       THEN /\ callers' = [callers EXCEPT ![t].pc = "build",
                                           ![t].calls = callers[t].calls + 1]
            /\ UNCHANGED _CONTRACT_LOCK
       ELSE /\ LockFree(_CONTRACT_LOCK)
            /\ _CONTRACT_LOCK' = Some(t)
            /\ callers' = [callers EXCEPT ![t].pc = "key",
                                           ![t].calls = callers[t].calls + 1]
    /\ UNCHANGED <<cacheFrame, _CONTRACT_CACHE, st_mtime_ns, builds, returned>>

\* Lines 868-869: the key from stat(), and the cache lookup.
Lookup(t) ==
    /\ callers[t].pc = "key"
    /\ \E key \in {_program_contract_cache_key(st_mtime_ns)} :
         callers' = [callers EXCEPT
                       ![t].key = Some(key),
                       ![t].stat = st_mtime_ns,
                       ![t].cached = DictGet(_CONTRACT_CACHE, key, None),
                       ![t].pc = IF DictGet(_CONTRACT_CACHE, key, None) = None
                                 THEN "build" ELSE "return"]
    /\ UNCHANGED <<cacheFrame, _CONTRACT_CACHE, _CONTRACT_LOCK, st_mtime_ns, builds, returned>>

\* Line 865 or 871: _build_contract reads the source as it is now; it raises
\* when the source is missing, and the exception leaves _get_contract (and
\* the lock, if held).
Build(t) ==
    /\ callers[t].pc = "build"
    /\ IF st_mtime_ns = None
       THEN /\ callers' = [callers EXCEPT ![t] = Idle(callers[t].calls)]
            /\ returned' = returned \cup {Outcome(t, None, callers[t].stat)}
            /\ _CONTRACT_LOCK' = IF _CONTRACT_LOCK = Some(t) THEN None ELSE _CONTRACT_LOCK
            /\ UNCHANGED builds
       ELSE /\ builds' = Append(builds, Built(Len(builds) + 1, callers[t].key))
            /\ callers' = [callers EXCEPT
                             ![t].cached = Some(Len(builds) + 1),
                             ![t].pc = IF args[1].reuse_contract THEN "store" ELSE "return"]
            /\ UNCHANGED <<_CONTRACT_LOCK, returned>>
    /\ UNCHANGED <<cacheFrame, _CONTRACT_CACHE, st_mtime_ns>>

\* Line 872.
Store(t) ==
    /\ callers[t].pc = "store"
    /\ _CONTRACT_CACHE' = DictSet(_CONTRACT_CACHE, callers[t].key[1], callers[t].cached)
    /\ callers' = [callers EXCEPT ![t].pc = "return"]
    /\ UNCHANGED <<cacheFrame, _CONTRACT_LOCK, st_mtime_ns, builds, returned>>

\* Line 865 or 873: the contract is handed to the caller and the lock left.
Return(t) ==
    /\ callers[t].pc = "return"
    /\ callers' = [callers EXCEPT ![t] = Idle(callers[t].calls)]
    /\ returned' = returned \cup {Outcome(t, callers[t].cached, callers[t].stat)}
    /\ _CONTRACT_LOCK' = IF _CONTRACT_LOCK = Some(t) THEN None ELSE _CONTRACT_LOCK
    /\ UNCHANGED <<cacheFrame, _CONTRACT_CACHE, st_mtime_ns, builds>>

\* The source is modified, removed or put back: any other modification time,
\* or none.
TouchSource ==
    /\ \E mtime \in {None} \cup {Some(m) : m \in 1..MaxMtime} :
         mtime # st_mtime_ns /\ st_mtime_ns' = mtime
    /\ UNCHANGED <<cacheFrame, _CONTRACT_CACHE, _CONTRACT_LOCK, callers, builds, returned>>

NextCache ==
    \/ \E t \in Threads : Call(t)
    \/ \E t \in Threads : Lookup(t)
    \/ \E t \in Threads : Build(t)
    \/ \E t \in Threads : Store(t)
    \/ \E t \in Threads : Return(t)
    \/ TouchSource

SpecCache == InitCache /\ [][NextCache]_vars

\* The calls that returned a contract, over all threads.
ContractReturns == {r \in returned : r.contract # None}

\* C27: with reuse enabled, whatever the interleaving, at most one contract is
\* built per modification time read (per cache key), all calls that read the
\* same modification time return the same contract object, and a call never
\* returns a contract built under another modification time than the one it
\* read.
C27_CacheBuildsOnce ==
    args[1].reuse_contract =>
        /\ \A i, j \in DOMAIN builds : builds[i].key = builds[j].key => i = j
        /\ \A r, s \in ContractReturns : r.stat = s.stat => r.contract = s.contract
        /\ \A r \in ContractReturns :
             builds[r.contract[1]].key = Some(_program_contract_cache_key(r.stat))

\* Calls of two threads returned the same contract object for one
\* modification time, and after the modification time changed a call returned
\* another.
C27_Witness ==
    /\ args[1].reuse_contract
    /\ \E r, s \in ContractReturns :
         r.stat # None /\ s.stat # None /\ r.stat # s.stat /\ r.contract # s.contract
    /\ \E r, s \in ContractReturns :
         r.thread # s.thread /\ r.stat = s.stat /\ r.contract = s.contract

(***************************************************************************)
(* web_app/backend/main.py: create_job, _process_job and _set_job. Jobs    *)
(* are created one after the other and their background tasks run          *)
(* concurrently; a task is cut at its _set_job calls, each of which        *)
(* updates the job under _JOBS_LOCK.                                       *)
(***************************************************************************)
MaxJobs == 2        \* jobs created

JobIds == 1..MaxJobs

\* Lines 51-78: the JobState dataclass (the fields the tasks write).
JobState(status, progress, outputs, job_error) ==
    [status |-> status, progress |-> progress, outputs |-> outputs, error |-> job_error]

\* Lines 1330-1339: a new job takes the dataclass defaults.
QueuedJob == JobState("queued", 2, {}, None)

\* A _process_job task: its position, the line its exception arose at (None
\* when none did), and whether facture_exemple.pdf exists.
Task(pc, raised_at, pdf_factures) ==
    [pc |-> pc, raised_at |-> raised_at, pdf_factures |-> pdf_factures]

\* Lines 182-189: the named attributes of the job are replaced under
\* _JOBS_LOCK; an unknown job_id changes nothing.
_set_job(jobs, job_id, updates) ==
    IF job_id \notin DOMAIN jobs
    THEN jobs
    ELSE [jobs EXCEPT ![job_id] =
            [k \in DOMAIN jobs[job_id] |->
                IF k \in DOMAIN updates THEN updates[k] ELSE jobs[job_id][k]]]

\* Mutant: the except branch leaves the progress where it was.
FailedUpdateAtProgress(exc) == [status |-> "failed", error |-> Some(exc)]

\* Lines 981-989: the updates of the except branch.
FailedUpdate(exc) == [status |-> "failed", progress |-> 100, error |-> Some(exc)]

\* Lines 952-960: the outputs of a completed job; the PDF entries are added
\* for the files that exist.
Outputs(pdf_factures, pdf_synthese) ==
    {"contract", "jsonl", "excel"}
        \cup (IF pdf_factures THEN {"pdf_factures"} ELSE {})
        \cup (IF pdf_synthese THEN {"pdf_synthese"} ELSE {})

\* Lines 971-980: the updates of the last _set_job of the try block.
Completed(outputs) == [status |-> "completed", progress |-> 100, outputs |-> outputs]

InitJobs ==
    /\ built = <<>> /\ contract = None /\ parser = None /\ raised = None
    /\ line = None /\ output = None
    /\ raw_value = None /\ field = None /\ value = None
    /\ handle = <<>> /\ continue_on_error = FALSE /\ line_number = 0
    /\ records = <<>> /\ issues = <<>> /\ structure_issues = None
    /\ error = None /\ result = None
    /\ layoutIdle /\ flattenIdle
    /\ _CONTRACT_CACHE = <<>> /\ _CONTRACT_LOCK = None /\ callers = <<>>
    /\ st_mtime_ns = 0 /\ builds = <<>> /\ returned = {}
    /\ args \in {Some([supports_pdf |-> pdf]) : pdf \in BOOLEAN}
    /\ _JOBS = <<>> /\ tasks = <<>>

jobFrame == <<built, args, contract, parser, raised, lineVars, coerceVars, fileVars,
              layoutVars, flattenVars, cacheVars>>

\* The exception left the try block at the given line: lines 981-990.
Except(job_id, at, exc) ==
    /\ _JOBS' = _set_job(_JOBS, job_id, FailedUpdate(exc))
    /\ tasks' = [tasks EXCEPT ![job_id] = Task("done", Some(at), tasks[job_id].pdf_factures)]

\* The task goes on to its next step after a _set_job.
Proceed(job_id, updates, pc) ==
    /\ _JOBS' = _set_job(_JOBS, job_id, updates)
    /\ tasks' = [tasks EXCEPT ![job_id].pc = pc]

\* Lines 1322-1341: the job is registered as queued under a job_id no earlier
\* job has (uuid4().hex[:12]) and its task is added to the background tasks.
create_job ==
    /\ Len(_JOBS) < MaxJobs
    /\ \E job_id \in {Len(_JOBS) + 1} :
         /\ _JOBS' = DictSet(_JOBS, job_id, QueuedJob)
         /\ tasks' = DictSet(tasks, job_id, Task("start", None, FALSE))
    /\ UNCHANGED jobFrame

\* Lines 877-890: the output directory is made outside the try block, so an
\* error there ends the task with the job untouched; a missing program source
\* raises inside it (create_job has rejected profiles without
\* supports_processing); otherwise the job is set running.
Start(job_id) ==
    /\ job_id \in DOMAIN tasks /\ tasks[job_id].pc = "start"
    /\ \/ /\ tasks' = [tasks EXCEPT ![job_id] = Task("done", Some(879), FALSE)]
          /\ UNCHANGED _JOBS
       \/ Except(job_id, 884, "FileNotFoundError")
       \/ Proceed(job_id, [status |-> "running", progress |-> 10], "contract")
    /\ UNCHANGED jobFrame

\* Lines 891-899: the contract is fetched and written.
Contract(job_id) ==
    /\ job_id \in DOMAIN tasks /\ tasks[job_id].pc = "contract"
    /\ \/ Except(job_id, 891, "ValueError")
       \/ Except(job_id, 894, "OSError")
       \/ Proceed(job_id, [progress |-> 35], "parse")
    /\ UNCHANGED jobFrame

\* Lines 900-914: the input is parsed and saved as JSON lines.
Parse(job_id) ==
    /\ job_id \in DOMAIN tasks /\ tasks[job_id].pc = "parse"
    /\ \/ Except(job_id, 901, "ParsingError")
       \/ Proceed(job_id, [progress |-> 55], "excel")
    /\ UNCHANGED jobFrame

\* Lines 915-934 and 949-950: the workbook is written; the next _set_job
\* depends on the profile.
Excel(job_id) ==
    /\ job_id \in DOMAIN tasks /\ tasks[job_id].pc = "excel"
    /\ \/ Except(job_id, 916, "OSError")
       \/ IF args[1].supports_pdf
          THEN Proceed(job_id, [progress |-> 75], "pdf_factures")
          ELSE Proceed(job_id, [progress |-> 90], "outputs")
    /\ UNCHANGED jobFrame

\* Lines 935-940: the invoice PDF, whose errors become warnings, and the
\* _set_job after it.
PdfFactures(job_id) ==
    /\ job_id \in DOMAIN tasks /\ tasks[job_id].pc = "pdf_factures"
    /\ \E written \in BOOLEAN :
         /\ _JOBS' = _set_job(_JOBS, job_id, [progress |-> 90])
         /\ tasks' = [tasks EXCEPT ![job_id] = Task("outputs", None, written)]
    /\ UNCHANGED jobFrame

\* Lines 941-980: the summary PDF (errors become warnings), the outputs, the
\* metrics and the KPIs, then the job is set completed.
Complete(job_id) ==
    /\ job_id \in DOMAIN tasks /\ tasks[job_id].pc = "outputs"
    /\ \/ Except(job_id, 969, "KeyError")
       \/ \E pdf_synthese \in (IF args[1].supports_pdf THEN BOOLEAN ELSE {FALSE}) :
            Proceed(job_id,
                    Completed(Outputs(tasks[job_id].pdf_factures, pdf_synthese)),
                    "done")
    /\ UNCHANGED jobFrame

NextJobs ==
    \/ create_job
    \/ \E job_id \in JobIds : Start(job_id)
    \/ \E job_id \in JobIds : Contract(job_id)
    \/ \E job_id \in JobIds : Parse(job_id)
    \/ \E job_id \in JobIds : Excel(job_id)
    \/ \E job_id \in JobIds : PdfFactures(job_id)
    \/ \E job_id \in JobIds : Complete(job_id)

SpecJobs == InitJobs /\ [][NextJobs]_vars

Terminal == {"completed", "failed"}

\* The status moves the claim allows.
Moves ==
    {<<"queued", "running">>, <<"running", "completed">>, <<"running", "failed">>,
     <<"queued", "failed">>}

====
